---------------------------- MODULE Spec2Model ----------------------------
(***************************************************************************)
(* Candle collection: the live-update driver (collect_current_candles),    *)
(* the backfill driver (collect_historical_candles), the gap detector      *)
(* (get_missing_candles_timerange) and the candle writes, modelled from    *)
(* data_collection_service.py and exchange_service.py.                     *)
(*                                                                         *)
(* Time is counted in whole minutes since the backfill floor date          *)
(* (start_date, 2020-01-01T00:00Z = minute 0).  The five price/volume      *)
(* fields of a candle (open, high, low, close, volume) travel together in  *)
(* the code and are modelled as one value, ohlcv.                          *)
(***************************************************************************)
EXTENDS Integers, Sequences, FiniteSets, TLC

\* ------------------------------------------------------------ bounds
\* "now" (minutes after the floor date) in the multi-exchange scenario
JobNow == 1
\* "now" in the single-leaf scenario with both drivers
LeafNow == 1
\* job invocations per behaviour in the single-leaf scenario with both drivers
LeafRuns == 2
\* transient failures (a raised fetch, commit, query or entity load) per behaviour
MaxFaults == 1
\* "now" in the single-leaf backfill scenario
GapNow == 3
\* job invocations per behaviour in the multi-exchange scenario
MaxRuns == 1
\* page size of the data source; the code asks for limit=1000, which the
\* model scales down so that several pages are needed to cross a gap
Limit == 2

\* invocations that may start in the specification with overlapping jobs
OverlapRuns == 2
\* backfill invocations in the specification with an interrupted process
CrashRuns == 2
\* interruptions of the process
MaxCrashes == 1
\* latest "now" the gap detector is called with, in minutes after the floor
DetNow == 10
\* largest duration handed to the timeframe codec, in minutes
MaxMinutes == 43201
\* calls of get_exchange_instance made on the service itself
MaxCalls == 3

\* ------------------------------------------------------------ program constants
\* timedelta(minutes=1): the gap detector's step past a stored candle
GapStepMinutes == 1
\* limit=1000 in the call of fetch_historical_candles
FetchLimit == 1000
\* timedelta(minutes=time_period.minutes * 100): the no-progress jump
NoProgressFactor == 100

Jobs == {"live", "hist"}
Vals == {1, 2}
NoCandle == [timestamp |-> -1, ohlcv |-> 0]

VARIABLES
    \* database content read by _get_active_entities (fixed during a behaviour)
    exchanges,      \* active exchange ids, in query order
    pairs,          \* active currency pair ids, in query order
    periods,        \* active time periods, in query order: [id, minutes]
    badCode,        \* exchange ids whose code get_exchange_instance rejects
    pairState,      \* pair id -> "ok" | "norel" | "twin" | one of LookupFailures
    now,            \* datetime.now(timezone.utc), in minutes after the floor
    honest,         \* TRUE: the source answers fetch_range from srcTimes
    srcTimes,       \* open times the honest source holds
    \* program state
    store,          \* committed candle rows: natural key -> rows, oldest first
    pending,        \* per job session: uncommitted writes
    cache,          \* ExchangeService.exchanges: exchange id -> cached client
    pc,             \* per job: where the invocation stands
    pos,            \* per job: loop indexes [e, p, t] into exchanges/pairs/periods
    ranges,         \* backfill: missing ranges still to process for the leaf
    cursor,         \* backfill: current_time of _collect_candles_for_range
    budget,         \* invocations that may still start
    faultBudget,    \* transient failures that may still happen
    \* history
    faults,         \* per job: kinds of failure met in the invocation
    jobOps,         \* per job: job-level commit/rollback/close counts
    exOps,          \* backfill: per exchange id, job-level [commit, rollback]
    visited,        \* per job: <<exchange id, pair id>> whose pair body began
    fetched,        \* live: leaf -> number of fetch_current_candle calls
    fetchRes,       \* live: leaf -> candle returned by the last fetch
    upserts,        \* live: leaf -> calls of _save_or_update_candle, each [candle, raised]
    durable,        \* per job: keys this invocation wrote and committed
    early,          \* per job: TRUE once a write was committed before the job's own commit
    liveN,          \* key -> successful _save_or_update_candle calls (capped at 2)
    lastLive,       \* key -> ohlcv of the last successful _save_or_update_candle
    prevCursor,     \* backfill: cursor before the last page was handled
    lastFetch,      \* backfill: the last fetch_historical_candles call of the current range
    iters,          \* backfill: pages handled in the current range
    curRange,       \* backfill: the range being paged, <<start, end>>
    lastGap,        \* backfill: the last range whose paging loop ended
    gapIn,          \* backfill: stored open times the last gap query saw
    gapOut,         \* backfill: ranges the last gap query returned
    skipped,        \* backfill: keys _save_historical_candles found stored and left alone
    made,           \* exchange id -> number of clients constructed for it
    handed,         \* exchange id -> clients get_exchange_instance returned for it
    origin,         \* per job: who started the invocation: "none" | "scheduler" | "endpoint"
    second,         \* per job: origin of a further invocation in progress at the same time
    response,       \* per job: the last envelope a trigger endpoint returned
    crash,          \* interruptions of the process: [n, keys stored at the last one]
    timeframe,      \* the token convert_minutes_to_timeframe returned, "unset" before
    calls           \* get_exchange_instance called on its own: [id, ok, client, before, after]

config   == <<exchanges, pairs, periods, badCode, pairState, now, honest, srcTimes>>
paging   == <<ranges, cursor, curRange>>
jobHist  == <<faults, jobOps, exOps, visited, durable, early>>
liveHist == <<fetched, fetchRes, upserts, liveN, lastLive>>
pageHist == <<prevCursor, lastFetch, iters, lastGap, gapIn, gapOut, skipped>>
clients  == <<cache, made, handed>>
aside    == <<origin, second, response, crash, timeframe, calls>>
vars     == <<config, store, pending, clients, pc, pos, paging, budget, faultBudget,
              jobHist, liveHist, pageHist, aside>>

\* ------------------------------------------------------------ helpers
Get(f, x, d) == IF x \in DOMAIN f THEN f[x] ELSE d

Put(f, x, v) == [y \in DOMAIN f \cup {x} |-> IF y = x THEN v ELSE f[y]]

Max(a, b) == IF a >= b THEN a ELSE b

Range(f) == {f[i] : i \in DOMAIN f}

SetMin(S) == CHOOSE x \in S : \A y \in S : x <= y

RECURSIVE SortedSeq(_)
SortedSeq(S) == IF S = {} THEN <<>> ELSE <<SetMin(S)>> \o SortedSeq(S \ {SetMin(S)})

RECURSIVE Repeat(_, _)
Repeat(x, n) == IF n = 0 THEN <<>> ELSE <<x>> \o Repeat(x, n - 1)

Prefix(s, n) == IF Len(s) <= n THEN s ELSE SubSeq(s, 1, n)

\* ------------------------------------------------------------ timeframe codec
\* DataCollectionService.convert_minutes_to_timeframe: dict.get on timeframe_map
TimeframeMap ==
    [m \in {1, 3, 5, 15, 30, 60, 120, 240, 360, 480, 720, 1440, 10080, 43200} |->
        CASE m = 1 -> "1m"  [] m = 3 -> "3m"   [] m = 5 -> "5m"   [] m = 15 -> "15m"
          [] m = 30 -> "30m" [] m = 60 -> "1h"  [] m = 120 -> "2h" [] m = 240 -> "4h"
          [] m = 360 -> "6h" [] m = 480 -> "8h" [] m = 720 -> "12h"
          [] m = 1440 -> "1d" [] m = 10080 -> "1w" [] m = 43200 -> "1M"]

\* convert_minutes_to_timeframe making up a token for a duration the table
\* does not hold
convert_minutes_to_timeframe_any(minutes) ==
    IF minutes \in DOMAIN TimeframeMap THEN TimeframeMap[minutes] ELSE "Nm"

\* convert_minutes_to_timeframe falling back to the 1-minute token
convert_minutes_to_timeframe_default(minutes) ==
    IF minutes \in DOMAIN TimeframeMap THEN TimeframeMap[minutes] ELSE "1m"

\* convert_minutes_to_timeframe: the token of the table, or None
convert_minutes_to_timeframe(minutes) ==
    IF minutes \in DOMAIN TimeframeMap THEN TimeframeMap[minutes] ELSE "none"

\* ------------------------------------------------------------ candle table and session
\* rows stored under a natural key <<currency_pair_id, exchange_id, time_period_id, open_time>>
Rows(st, k) == IF k \in DOMAIN st THEN st[k] ELSE <<>>

PutRows(st, k, rs) == [x \in DOMAIN st \cup {k} |-> IF x = k THEN rs ELSE st[x]]

\* models.Candle(...) as built by both writers: close_time = open_time,
\* candle_data.get('quote_volume', 0), candle_data.get('trades_count', 0)
NewRow(cd) ==
    [close_time |-> cd.timestamp, ohlcv |-> cd.ohlcv,
     quote_volume |-> 0, trades_count |-> 0, updated |-> FALSE]

\* the update branch of _save_or_update_candle leaving quote_volume and
\* trades_count as they were
UpdatedRowKeepsVolumes(row, cd) == [row EXCEPT !.ohlcv = cd.ohlcv, !.updated = TRUE]

\* the update branch of _save_or_update_candle touching updated_at only
UpdatedRowStale(row, cd) == [row EXCEPT !.updated = TRUE]

\* the assignments of the update branch of _save_or_update_candle
UpdatedRow(row, cd) ==
    [row EXCEPT !.ohlcv = cd.ohlcv, !.quote_volume = 0, !.trades_count = 0,
                !.updated = TRUE]

\* a session write whose update branch deletes the loaded row
ApplyOpDropsOnUpdate(st, o) ==
    IF o.op = "ins"
      THEN PutRows(st, o.key, Append(Rows(st, o.key), o.row))
      ELSE PutRows(st, o.key, Tail(Rows(st, o.key)))

\* one uncommitted write of a session: db.add(new) or a change to a loaded row
ApplyOp(st, o) ==
    IF o.op = "ins"
      THEN PutRows(st, o.key, Append(Rows(st, o.key), o.row))
      ELSE PutRows(st, o.key, <<o.row>> \o Tail(Rows(st, o.key)))

\* db.commit(): the session's writes reach the table
RECURSIVE Commit(_, _)
Commit(st, pend) ==
    IF pend = <<>> THEN st ELSE Commit(ApplyOp(st, Head(pend)), Tail(pend))

PendKeys(pend) == {pend[i].key : i \in DOMAIN pend}

\* the tests of _get_currency_pair_id that raise ValueError, in the order the
\* code makes them: the text does not split into base and quote at one '/',
\* no symbol row for the base text, none for the quote text, no pair row for
\* the two symbol ids
LookupFailures == {"nosep", "nobase", "noquote", "nopair"}

\* _get_currency_pair_id handing back None, where the code raises, when the
\* query for the pair row finds nothing
get_currency_pair_id_none_for_pair(p) ==
    [ok |-> pairState[p] \notin {"nosep", "nobase", "noquote"}, id |-> p]

\* the row the pair query of _get_currency_pair_id returns for the text of
\* pair p: the query filters on base_symbol_id and quote_symbol_id only and
\* takes .first(), so for a pair in state "twin", whose BASE/QUOTE text is
\* also that of another pair (spot and futures of the same symbols), it is
\* the other pair's row
PairRowFor(p) ==
    IF pairState[p] = "twin" /\ \E q \in Range(pairs) : q # p /\ pairState[q] = "ok"
      THEN CHOOSE q \in Range(pairs) : q # p /\ pairState[q] = "ok"
      ELSE p

\* _get_currency_pair_id: the id of the pair row found for the BASE/QUOTE
\* text, or a raised ValueError
get_currency_pair_id(p) ==
    [ok |-> pairState[p] \notin LookupFailures, id |-> PairRowFor(p)]

\* ------------------------------------------------------------ live-update write
\* _save_or_update_candle without the query for the stored row: every call adds
save_or_update_candle_no_lookup(st, pend, exId, period, p, cd, commitOk) ==
    LET pid == get_currency_pair_id(p) IN
    IF ~pid.ok
      THEN [store |-> st, pending |-> <<>>, raised |-> TRUE, keys |-> {}]
      ELSE
        LET k     == <<pid.id, exId, period.id, cd.timestamp>>
            pend1 == Append(pend, [op |-> "ins", key |-> k, row |-> NewRow(cd)])
        IN IF commitOk
             THEN [store |-> Commit(st, pend1), pending |-> <<>>, raised |-> FALSE,
                   keys |-> PendKeys(pend1)]
             ELSE [store |-> st, pending |-> <<>>, raised |-> TRUE, keys |-> {}]

\* _save_or_update_candle leaving the commit to its caller
save_or_update_candle_no_commit(st, pend, exId, period, p, cd, commitOk) ==
    LET pid == get_currency_pair_id(p) IN
    IF ~pid.ok
      THEN [store |-> st, pending |-> <<>>, raised |-> TRUE, keys |-> {}]
      ELSE
        LET k        == <<pid.id, exId, period.id, cd.timestamp>>
            existing == Rows(st, k)
            o        == IF existing = <<>>
                          THEN [op |-> "ins", key |-> k, row |-> NewRow(cd)]
                          ELSE [op |-> "upd", key |-> k, row |-> UpdatedRow(existing[1], cd)]
        IN [store |-> st, pending |-> Append(pend, o), raised |-> FALSE, keys |-> {}]

\* _save_or_update_candle leaving a successful write to the commit that ends
\* the invocation, so that the rollback of a later failing write drops it
save_or_update_candle_deferred(st, pend, exId, period, p, cd, commitOk) ==
    LET pid == get_currency_pair_id(p) IN
    IF ~pid.ok \/ ~commitOk
      THEN [store |-> st, pending |-> <<>>, raised |-> TRUE, keys |-> {}]
      ELSE
        LET k        == <<pid.id, exId, period.id, cd.timestamp>>
            existing == Rows(st, k)
            o        == IF existing = <<>>
                          THEN [op |-> "ins", key |-> k, row |-> NewRow(cd)]
                          ELSE [op |-> "upd", key |-> k, row |-> UpdatedRow(existing[1], cd)]
        IN [store |-> st, pending |-> Append(pend, o), raised |-> FALSE, keys |-> {}]

\* _save_or_update_candle; commitOk tells whether db.commit() succeeds
save_or_update_candle(st, pend, exId, period, p, cd, commitOk) ==
    LET pid == get_currency_pair_id(p) IN
    IF ~pid.ok
      THEN [store |-> st, pending |-> <<>>, raised |-> TRUE, keys |-> {}]
      ELSE
        LET k        == <<pid.id, exId, period.id, cd.timestamp>>
            existing == Rows(st, k)
            o        == IF existing = <<>>
                          THEN [op |-> "ins", key |-> k, row |-> NewRow(cd)]
                          ELSE [op |-> "upd", key |-> k, row |-> UpdatedRow(existing[1], cd)]
            pend1    == Append(pend, o)
        IN IF commitOk
             THEN [store |-> Commit(st, pend1), pending |-> <<>>, raised |-> FALSE,
                   keys |-> PendKeys(pend1)]
             ELSE [store |-> st, pending |-> <<>>, raised |-> TRUE, keys |-> {}]

\* the loop body of _save_historical_candles judging "already stored" by the
\* open times the gap query of the leaf saw, not by a query of its own
RECURSIVE SaveHistLoopStaleCheck(_, _, _, _, _, _)
SaveHistLoopStaleCheck(acc, pid, exId, period, page, bad) ==
    IF acc.i > Len(page) THEN acc
    ELSE
      LET cd    == page[acc.i]
          k     == <<pid, exId, period.id, cd.timestamp>>
          pend1 == Append(acc.pending, [op |-> "ins", key |-> k, row |-> NewRow(cd)])
          next  ==
            IF cd.timestamp \in Range(gapIn)
              THEN [acc EXCEPT !.i = @ + 1, !.skipped = @ \cup {k}]
            ELSE IF acc.i \in bad
              THEN [acc EXCEPT !.i = @ + 1, !.pending = <<>>, !.failed = @ + 1]
              ELSE [acc EXCEPT !.i = @ + 1, !.pending = <<>>,
                               !.store = Commit(acc.store, pend1),
                               !.keys = @ \cup PendKeys(pend1)]
      IN SaveHistLoopStaleCheck(next, pid, exId, period, page, bad)

\* the loop body of _save_historical_candles without the query for the stored
\* row: every candle of the page is added
RECURSIVE SaveHistLoopNoCheck(_, _, _, _, _, _)
SaveHistLoopNoCheck(acc, pid, exId, period, page, bad) ==
    IF acc.i > Len(page) THEN acc
    ELSE
      LET cd    == page[acc.i]
          k     == <<pid, exId, period.id, cd.timestamp>>
          pend1 == Append(acc.pending, [op |-> "ins", key |-> k, row |-> NewRow(cd)])
          next  ==
            IF acc.i \in bad
              THEN [acc EXCEPT !.i = @ + 1, !.pending = <<>>, !.failed = @ + 1]
              ELSE [acc EXCEPT !.i = @ + 1, !.pending = <<>>,
                               !.store = Commit(acc.store, pend1),
                               !.keys = @ \cup PendKeys(pend1)]
      IN SaveHistLoopNoCheck(next, pid, exId, period, page, bad)

\* the loop body of _save_historical_candles passing over the candles of the
\* page that open outside the range being paged
RECURSIVE SaveHistLoopClipped(_, _, _, _, _, _)
SaveHistLoopClipped(acc, pid, exId, period, page, bad) ==
    IF acc.i > Len(page) THEN acc
    ELSE
      LET cd       == page[acc.i]
          k        == <<pid, exId, period.id, cd.timestamp>>
          existing == Rows(acc.store, k)
          pend1    == Append(acc.pending, [op |-> "ins", key |-> k, row |-> NewRow(cd)])
          next     ==
            IF cd.timestamp < curRange.start \/ cd.timestamp >= curRange.end
              THEN [acc EXCEPT !.i = @ + 1]
            ELSE IF existing # <<>> THEN [acc EXCEPT !.i = @ + 1, !.skipped = @ \cup {k}]
            ELSE IF acc.i \in bad
              THEN [acc EXCEPT !.i = @ + 1, !.pending = <<>>, !.failed = @ + 1]
              ELSE [acc EXCEPT !.i = @ + 1, !.pending = <<>>,
                               !.store = Commit(acc.store, pend1),
                               !.keys = @ \cup PendKeys(pend1)]
      IN SaveHistLoopClipped(next, pid, exId, period, page, bad)

\* the loop body of _save_historical_candles writing the fetched values over
\* a row it finds stored, as _save_or_update_candle does
RECURSIVE SaveHistLoopOverwrites(_, _, _, _, _, _)
SaveHistLoopOverwrites(acc, pid, exId, period, page, bad) ==
    IF acc.i > Len(page) THEN acc
    ELSE
      LET cd       == page[acc.i]
          k        == <<pid, exId, period.id, cd.timestamp>>
          existing == Rows(acc.store, k)
          o        == IF existing = <<>>
                        THEN [op |-> "ins", key |-> k, row |-> NewRow(cd)]
                        ELSE [op |-> "upd", key |-> k, row |-> UpdatedRow(existing[1], cd)]
          pend1    == Append(acc.pending, o)
          next     ==
            IF acc.i \in bad
              THEN [acc EXCEPT !.i = @ + 1, !.pending = <<>>, !.failed = @ + 1]
              ELSE [acc EXCEPT !.i = @ + 1, !.pending = <<>>,
                               !.store = Commit(acc.store, pend1),
                               !.keys = @ \cup PendKeys(pend1),
                               !.skipped = IF existing # <<>> THEN @ \cup {k} ELSE @]
      IN SaveHistLoopOverwrites(next, pid, exId, period, page, bad)

\* _save_historical_candles with the try around the whole loop: the first
\* failing candle ends the page
RECURSIVE SaveHistLoopAbort(_, _, _, _, _, _)
SaveHistLoopAbort(acc, pid, exId, period, page, bad) ==
    IF acc.i > Len(page) THEN acc
    ELSE
      LET cd       == page[acc.i]
          k        == <<pid, exId, period.id, cd.timestamp>>
          existing == Rows(acc.store, k)
          pend1    == Append(acc.pending, [op |-> "ins", key |-> k, row |-> NewRow(cd)])
          next     ==
            IF existing # <<>> THEN [acc EXCEPT !.i = @ + 1, !.skipped = @ \cup {k}]
            ELSE IF acc.i \in bad
              THEN [acc EXCEPT !.i = Len(page) + 1, !.pending = <<>>, !.failed = @ + 1]
              ELSE [acc EXCEPT !.i = @ + 1, !.pending = <<>>,
                               !.store = Commit(acc.store, pend1),
                               !.keys = @ \cup PendKeys(pend1)]
      IN SaveHistLoopAbort(next, pid, exId, period, page, bad)

\* ------------------------------------------------------------ backfill write
\* the loop body of _save_historical_candles for candles i..Len(page);
\* bad is the set of page indexes whose db.commit() fails
RECURSIVE SaveHistLoop(_, _, _, _, _, _)
SaveHistLoop(acc, pid, exId, period, page, bad) ==
    IF acc.i > Len(page) THEN acc
    ELSE
      LET cd       == page[acc.i]
          k        == <<pid, exId, period.id, cd.timestamp>>
          existing == Rows(acc.store, k)
          pend1    == Append(acc.pending, [op |-> "ins", key |-> k, row |-> NewRow(cd)])
          next     ==
            IF existing # <<>> THEN [acc EXCEPT !.i = @ + 1, !.skipped = @ \cup {k}]
            ELSE IF acc.i \in bad
              THEN [acc EXCEPT !.i = @ + 1, !.pending = <<>>, !.failed = @ + 1]
              ELSE [acc EXCEPT !.i = @ + 1, !.pending = <<>>,
                               !.store = Commit(acc.store, pend1),
                               !.keys = @ \cup PendKeys(pend1)]
      IN SaveHistLoop(next, pid, exId, period, page, bad)

\* _save_historical_candles
save_historical_candles(st, pend, exId, period, p, page, bad) ==
    LET pid == get_currency_pair_id(p) IN
    IF ~pid.ok
      THEN [store |-> st, pending |-> pend, raised |-> TRUE, keys |-> {}, failed |-> 0, i |-> 1,
            skipped |-> {}]
      ELSE SaveHistLoop([store |-> st, pending |-> pend, raised |-> FALSE, keys |-> {},
                         failed |-> 0, i |-> 1, skipped |-> {}],
                        pid.id, exId, period, page, bad)

\* ------------------------------------------------------------ gap detector
StartDate == 0

\* _get_existing_candles: open times of the rows of one triple with
\* open_time >= start_date, ascending
ExistingCandles(st, pid, exId, tpId, start_date) ==
    LET ts == {k[4] : k \in {x \in DOMAIN st : x[1] = pid /\ x[2] = exId /\ x[3] = tpId
                                               /\ x[4] >= start_date}}
        RECURSIVE Build(_)
        Build(s) == IF s = <<>> THEN <<>>
                    ELSE Repeat(Head(s), Len(st[<<pid, exId, tpId, Head(s)>>])) \o Build(Tail(s))
    IN Build(SortedSeq(ts))

\* the for-loop of get_missing_candles_timerange leaving the cursor on the
\* open time of the candle
RECURSIVE GapWalkNoStep(_, _, _)
GapWalkNoStep(times, current_time, gaps) ==
    IF times = <<>> THEN [gaps |-> gaps, current_time |-> current_time]
    ELSE LET ts == Head(times)
             g1 == IF ts > current_time THEN Append(gaps, <<current_time, ts>>) ELSE gaps
         IN GapWalkNoStep(Tail(times), Max(current_time, ts), g1)

\* the for-loop of get_missing_candles_timerange stepping past a stored candle
\* by the duration of the period
RECURSIVE GapWalkPeriodStep(_, _, _)
GapWalkPeriodStep(times, current_time, gaps) ==
    IF times = <<>> THEN [gaps |-> gaps, current_time |-> current_time]
    ELSE LET ts == Head(times)
             g1 == IF ts > current_time THEN Append(gaps, <<current_time, ts>>) ELSE gaps
         IN GapWalkPeriodStep(Tail(times), Max(current_time, ts + periods[1].minutes), g1)

\* the for-loop of get_missing_candles_timerange over the stored candles
RECURSIVE GapWalk(_, _, _)
GapWalk(times, current_time, gaps) ==
    IF times = <<>> THEN [gaps |-> gaps, current_time |-> current_time]
    ELSE LET ts == Head(times)
             g1 == IF ts > current_time THEN Append(gaps, <<current_time, ts>>) ELSE gaps
         IN GapWalk(Tail(times), Max(current_time, ts + GapStepMinutes), g1)

\* get_missing_candles_timerange without the range after the last stored candle
get_missing_candles_timerange_no_tail(existing, start_date, nowT) ==
    IF existing = <<>> THEN << <<start_date, nowT>> >>
    ELSE GapWalk(existing, start_date, <<>>).gaps

\* get_missing_candles_timerange reporting nothing for a triple without candles
get_missing_candles_timerange_empty(existing, start_date, nowT) ==
    IF existing = <<>> THEN <<>>
    ELSE LET w == GapWalk(existing, start_date, <<>>)
         IN IF w.current_time < nowT THEN Append(w.gaps, <<w.current_time, nowT>>)
            ELSE w.gaps

\* get_missing_candles_timerange, given the stored open times
get_missing_candles_timerange(existing, start_date, nowT) ==
    IF existing = <<>> THEN << <<start_date, nowT>> >>
    ELSE LET w == GapWalk(existing, start_date, <<>>)
         IN IF w.current_time < nowT THEN Append(w.gaps, <<w.current_time, nowT>>)
            ELSE w.gaps

\* the cursor update without the jump for a page that brings nothing later
NextCursorStuck(current_time, page, minutes) ==
    LET last_candle_time == page[Len(page)].timestamp IN
    IF last_candle_time <= current_time
      THEN current_time
      ELSE last_candle_time + minutes

\* the cursor update stepping two periods past the last candle of the page
NextCursorSkip(current_time, page, minutes) ==
    LET last_candle_time == page[Len(page)].timestamp IN
    IF last_candle_time <= current_time
      THEN current_time + minutes * NoProgressFactor
      ELSE last_candle_time + 2 * minutes

\* the cursor update stepping one period when the page brought no progress
NextCursorNoJump(current_time, page, minutes) ==
    LET last_candle_time == page[Len(page)].timestamp IN
    IF last_candle_time <= current_time
      THEN current_time + minutes
      ELSE last_candle_time + minutes

\* ------------------------------------------------------------ paging
\* the cursor update at the end of the while body of _collect_candles_for_range
NextCursor(current_time, page, minutes) ==
    LET last_candle_time == page[Len(page)].timestamp IN
    IF last_candle_time <= current_time
      THEN current_time + minutes * NoProgressFactor
      ELSE last_candle_time + minutes

\* what fetch_historical_candles hands back: the honest source answers with
\* its earliest candles at or after since (at most Limit of them); any other
\* source answers with any page of at most Limit candles
HistCandle(t) == [timestamp |-> t, ohlcv |-> 1]

HonestPage(since, minutes) ==
    LET ts == SortedSeq({t \in srcTimes : t >= since /\ t % minutes = 0})
        p  == Prefix(ts, Limit)
    IN [i \in 1..Len(p) |-> HistCandle(p[i])]

AnyPages ==
    UNION {[1..n -> {HistCandle(t) : t \in 0..(now + 1)}] : n \in 1..Limit}

Pages(since, minutes) ==
    IF honest THEN {HonestPage(since, minutes)} ELSE AnyPages \cup {<<>>}


\* ------------------------------------------------------------ client cache
\* get_exchange_instance building a client on every call
get_exchange_instance_no_cache(c, mk, exId) ==
    IF exId \in badCode THEN [ok |-> FALSE, cache |-> c, made |-> mk, client |-> 0]
    ELSE LET n == Get(mk, exId, 0) + 1
         IN [ok |-> TRUE, cache |-> Put(c, exId, n), made |-> Put(mk, exId, n), client |-> n]

\* get_exchange_instance remembering an unsupported exchange: the first call
\* raises, later calls hand back what the cache holds for the id
get_exchange_instance_keeps_failure(c, mk, exId) ==
    IF exId \in DOMAIN c THEN [ok |-> TRUE, cache |-> c, made |-> mk, client |-> c[exId]]
    ELSE IF exId \in badCode
      THEN [ok |-> FALSE, cache |-> Put(c, exId, 0), made |-> mk, client |-> 0]
    ELSE LET n == Get(mk, exId, 0) + 1
         IN [ok |-> TRUE, cache |-> Put(c, exId, n), made |-> Put(mk, exId, n), client |-> n]

\* ExchangeService.get_exchange_instance: the cached client, a new client
\* stored in the cache, or a raised ValueError for an unsupported code
\* A client is told from every other by the order of its construction.
get_exchange_instance(c, mk, exId) ==
    IF exId \in DOMAIN c THEN [ok |-> TRUE, cache |-> c, made |-> mk, client |-> c[exId]]
    ELSE IF exId \in badCode THEN [ok |-> FALSE, cache |-> c, made |-> mk, client |-> 0]
    ELSE LET n == Get(mk, exId, 0) + 1
         IN [ok |-> TRUE, cache |-> Put(c, exId, n), made |-> Put(mk, exId, n), client |-> n]

\* ------------------------------------------------------------ fetches
\* fetch_current_candle: the last candle of the answer, or None when the
\* answer is empty or the call raised
\* the newest candle of the exchange is the one that opens at "now"
LiveTimes == {now}

LiveAnswers ==
    {[kind |-> k, candle |-> NoCandle] : k \in {"fail", "none"}}
      \cup {[kind |-> "candle", candle |-> [timestamp |-> t, ohlcv |-> v]] :
              t \in LiveTimes, v \in Vals}

fetch_current_candle(answer) ==
    IF answer.kind \in {"fail", "none"} THEN NoCandle ELSE answer.candle

\* _process_timeframe_candle calling the writer whatever the fetch returned
HasCandleAlways(candle_data) == TRUE

\* "if candle_data:" in _process_timeframe_candle
HasCandle(candle_data) == candle_data # NoCandle

\* a fetch whose except clause re-raises what the data source raised
fetch_raises_on_failure(answer) == answer.kind = "fail"

\* whether fetch_current_candle / fetch_historical_candles raises to its
\* caller: the try of either spans its whole body and the except returns
fetch_raises(answer) == FALSE

\* fetch_historical_candles: the answer's candles, or [] when the call raised
fetch_historical_candles(answer) ==
    IF answer.kind = "fail" THEN <<>> ELSE answer.page

HistAnswers(since, minutes) ==
    {[kind |-> "page", page |-> pg] : pg \in Pages(since, minutes)}
      \cup {[kind |-> "fail", page |-> <<>>]}

\* ------------------------------------------------------------ job state
Running(j) == pc[j] \notin {"idle", "done"}

NoOps == [commit |-> 0, rollback |-> 0, close |-> 0]

NoExOps == [commit |-> 0, rollback |-> 0]

NoRange == [start |-> 0, end |-> 0, clean |-> TRUE]

NoResponse == [status |-> "none", failed |-> FALSE]

NoCrash == [n |-> 0, keys |-> {}]

NoGap == [leaf |-> <<0, 0, 0>>, start |-> 0, end |-> 0, clean |-> FALSE]

NoFetch == [since |-> 0, limit |-> 0, k |-> 0, page |-> <<>>, bad |-> {}]

\* the k-th call fetch_historical_candles(exchange_instance, symbol, timeframe,
\* current_time, limit=1000) of a range, the page it returned and the indexes
\* of the page whose db.commit() failed in _save_historical_candles
FetchCall(current_time, k, page, bad) ==
    [since |-> current_time, limit |-> FetchLimit, k |-> k, page |-> page, bad |-> bad]

ExBump(f, exId, field) ==
    Put(f, exId, [Get(f, exId, NoExOps) EXCEPT ![field] = @ + 1])

Cap2(n) == IF n >= 2 THEN 2 ELSE n

CurExchange(j) == exchanges[pos[j].e]
CurPair(j)     == pairs[pos[j].p]
CurPeriod(j)   == periods[pos[j].t]
CurLeaf(j)     == <<CurExchange(j), CurPair(j), CurPeriod(j).id>>

\* the "except Exception" of collect_current_candles / collect_historical_candles
\* followed by its "finally": db.rollback(); db.close()
TopLevelError(j, kind) ==
    /\ pending' = [pending EXCEPT ![j] = <<>>]
    /\ pc' = [pc EXCEPT ![j] = "done"]
    /\ faults' = [faults EXCEPT ![j] = @ \cup {kind}]
    /\ jobOps' = [jobOps EXCEPT ![j].rollback = @ + 1, ![j].close = @ + 1]

\* a driver with "finally: db.close()" and no "except": the exception of
\* _get_active_entities leaves the driver
EntitiesErrorRaises ==
    [pc |-> "raised", ops |-> [commit |-> 0, rollback |-> 0, close |-> 1]]

\* _get_active_entities raised: the "except Exception" of the driver logs and
\* rolls back, "finally" closes the session, and the driver returns
EntitiesError ==
    [pc |-> "done", ops |-> [commit |-> 0, rollback |-> 1, close |-> 1]]

\* SessionLocal() and _get_active_entities(db) at the head of either driver;
\* the jobs run one after another, and the history of the previous
\* invocation is dropped when the next one starts
Begin(j) ==
    /\ ~Running("live") /\ ~Running("hist")
    /\ budget > 0
    /\ budget' = budget - 1
    /\ visited' = [x \in Jobs |-> {}]
    /\ durable' = [x \in Jobs |-> {}]
    /\ early' = [x \in Jobs |-> FALSE]
    /\ pos' = [x \in Jobs |-> [e |-> 1, p |-> 1, t |-> 1]]
    /\ pending' = [pending EXCEPT ![j] = <<>>]
    /\ exOps' = <<>>
    /\ fetched' = <<>>
    /\ fetchRes' = <<>>
    /\ upserts' = <<>>
    /\ ranges' = <<>>
    /\ cursor' = 0
    /\ curRange' = NoRange
    /\ prevCursor' = 0
    /\ lastFetch' = NoFetch
    /\ iters' = 0
    /\ lastGap' = NoGap
    /\ gapIn' = <<>>
    /\ gapOut' = <<>>
    /\ skipped' = {}
    /\ \E ok \in BOOLEAN :
         IF ok
           THEN /\ pc' = [x \in Jobs |-> IF x = j THEN "exch" ELSE "idle"]
                /\ faults' = [x \in Jobs |-> {}]
                /\ jobOps' = [x \in Jobs |-> NoOps]
                /\ UNCHANGED faultBudget
           ELSE /\ faultBudget > 0
                /\ faultBudget' = faultBudget - 1
                /\ pc' = [x \in Jobs |-> IF x = j THEN EntitiesError.pc ELSE "idle"]
                /\ faults' = [x \in Jobs |-> IF x = j THEN {"entities"} ELSE {}]
                /\ jobOps' = [x \in Jobs |-> IF x = j THEN EntitiesError.ops ELSE NoOps]
    /\ UNCHANGED <<config, aside, store, clients, liveN, lastLive>>

\* ------------------------------------------------------------ live update
\* collect_current_candles up to its for-loop
StartLive == Begin("live")

\* _process_exchange_candles with get_exchange_instance outside any try: the
\* error reaches the except of collect_current_candles
LiveInitErrorRaises ==
    /\ TopLevelError("live", "init")
    /\ UNCHANGED pos

\* the except of _process_exchange_candles around get_exchange_instance:
\* the error is logged and the exchange is left with "return False"
LiveInitError ==
    /\ pos' = [pos EXCEPT !["live"].e = @ + 1]
    /\ faults' = [faults EXCEPT !["live"] = @ \cup {"init"}]
    /\ UNCHANGED <<pc, pending, jobOps>>

\* the for-loop head of collect_current_candles, the final db.commit() and
\* db.close(), and the try block of _process_exchange_candles
LiveExchange ==
    /\ pc["live"] = "exch"
    /\ IF pos["live"].e > Len(exchanges)
         THEN /\ store' = Commit(store, pending["live"])
              /\ durable' = [durable EXCEPT !["live"] = @ \cup PendKeys(pending["live"])]
              /\ pending' = [pending EXCEPT !["live"] = <<>>]
              /\ jobOps' = [jobOps EXCEPT !["live"].commit = @ + 1, !["live"].close = @ + 1]
              /\ pc' = [pc EXCEPT !["live"] = "done"]
              /\ UNCHANGED <<clients, pos, faults>>
         ELSE LET r == get_exchange_instance(cache, made, CurExchange("live")) IN
              /\ cache' = r.cache
              /\ made' = r.made
              /\ handed' = IF r.ok
                             THEN Put(handed, CurExchange("live"),
                                      Get(handed, CurExchange("live"), {}) \cup {r.client})
                             ELSE handed
              /\ IF r.ok
                   THEN /\ pc' = [pc EXCEPT !["live"] = "pair"]
                        /\ pos' = [pos EXCEPT !["live"].p = 1]
                        /\ UNCHANGED <<faults, pending, jobOps>>
                   ELSE LiveInitError
              /\ UNCHANGED <<store, durable>>
    /\ UNCHANGED <<config, aside, paging, budget, faultBudget, exOps, visited, early,
                   liveHist, pageHist>>

\* the pair loop of _process_exchange_candles: the loop head, the symbol text
\* built from pair.base_symbol / pair.quote_symbol (outside the try), and the
\* "return True" after the last pair
LivePair ==
    /\ pc["live"] = "pair"
    /\ IF pos["live"].p > Len(pairs)
         THEN /\ pos' = [pos EXCEPT !["live"].e = @ + 1]
              /\ pc' = [pc EXCEPT !["live"] = "exch"]
              /\ UNCHANGED <<pending, faults, jobOps, visited>>
         ELSE /\ visited' = [visited EXCEPT !["live"] =
                                @ \cup {<<CurExchange("live"), CurPair("live")>>}]
              /\ IF pairState[CurPair("live")] = "norel"
                   THEN /\ TopLevelError("live", "symbol")
                        /\ UNCHANGED pos
                   ELSE /\ pc' = [pc EXCEPT !["live"] = "tf"]
                        /\ pos' = [pos EXCEPT !["live"].t = 1]
                        /\ UNCHANGED <<pending, faults, jobOps>>
    /\ UNCHANGED <<config, aside, store, clients, paging, budget, faultBudget, exOps, durable,
                   early, liveHist, pageHist>>

\* the timeframe loop of _process_symbol_candles and _process_timeframe_candle
\* up to the awaited fetch_current_candle
LiveTimeframe ==
    /\ pc["live"] = "tf"
    /\ IF pos["live"].t > Len(periods)
         THEN /\ pos' = [pos EXCEPT !["live"].p = @ + 1]
              /\ pc' = [pc EXCEPT !["live"] = "pair"]
              /\ UNCHANGED fetched
         ELSE IF convert_minutes_to_timeframe(CurPeriod("live").minutes) = "none"
           THEN /\ pos' = [pos EXCEPT !["live"].t = @ + 1]
                /\ UNCHANGED <<pc, fetched>>
           ELSE /\ pc' = [pc EXCEPT !["live"] = "fetch"]
                /\ fetched' = Put(fetched, CurLeaf("live"), Get(fetched, CurLeaf("live"), 0) + 1)
                /\ UNCHANGED pos
    /\ UNCHANGED <<config, aside, store, pending, clients, paging, budget, faultBudget, jobHist,
                   fetchRes, upserts, liveN, lastLive, pageHist>>

\* a leaf whose error no except between the leaf and the driver holds back
LiveLeafErrorRaises(kind) ==
    /\ TopLevelError("live", kind)
    /\ UNCHANGED pos

\* the except of _process_timeframe_candle: what the write raised (after the
\* rollback of _save_or_update_candle) is logged and the leaf ends
LiveLeafError(kind) ==
    /\ pending' = [pending EXCEPT !["live"] = <<>>]
    /\ faults' = [faults EXCEPT !["live"] = @ \cup {kind}]
    /\ pos' = [pos EXCEPT !["live"].t = @ + 1]
    /\ pc' = [pc EXCEPT !["live"] = "tf"]
    /\ UNCHANGED jobOps

\* _process_timeframe_candle from the return of fetch_current_candle on:
\* _save_or_update_candle when a candle came back
LiveFetchReturn ==
    /\ pc["live"] = "fetch"
    /\ \E answer \in LiveAnswers, commitOk \in BOOLEAN :
         LET cd   == fetch_current_candle(answer)
             leaf == CurLeaf("live")
             pid  == get_currency_pair_id(CurPair("live"))
             r    == save_or_update_candle(store, pending["live"], CurExchange("live"),
                                           CurPeriod("live"), CurPair("live"), cd, commitOk)
             k    == <<pid.id, CurExchange("live"), CurPeriod("live").id, cd.timestamp>>
             spent == IF answer.kind = "fail" \/ (cd # NoCandle /\ pid.ok /\ ~commitOk)
                        THEN 1 ELSE 0
         IN
         /\ cd = NoCandle \/ ~pid.ok => commitOk
         /\ faultBudget >= spent
         /\ faultBudget' = faultBudget - spent
         /\ fetchRes' = Put(fetchRes, leaf, cd)
         /\ upserts' = IF ~HasCandle(cd) THEN upserts
                       ELSE Put(upserts, leaf,
                                Append(Get(upserts, leaf, <<>>), [candle |-> cd, raised |-> r.raised]))
         /\ IF fetch_raises(answer)
              THEN /\ faults' = [faults EXCEPT !["live"] = @ \cup {"raised"}]
                   /\ pos' = [pos EXCEPT !["live"].t = @ + 1]
                   /\ pc' = [pc EXCEPT !["live"] = "tf"]
                   /\ UNCHANGED <<store, pending, jobOps, durable, early, liveN, lastLive>>
              ELSE IF ~HasCandle(cd)
              THEN /\ faults' = [faults EXCEPT !["live"] =
                                   IF answer.kind = "fail" THEN @ \cup {"fetch"} ELSE @]
                   /\ pos' = [pos EXCEPT !["live"].t = @ + 1]
                   /\ pc' = [pc EXCEPT !["live"] = "tf"]
                   /\ UNCHANGED <<store, pending, jobOps, durable, early, liveN, lastLive>>
              ELSE IF r.raised
                THEN /\ LiveLeafError(IF pid.ok THEN "write" ELSE "lookup")
                     /\ store' = r.store
                     /\ UNCHANGED <<durable, early, liveN, lastLive>>
                ELSE /\ store' = r.store
                     /\ pending' = [pending EXCEPT !["live"] = r.pending]
                     /\ durable' = [durable EXCEPT !["live"] = @ \cup r.keys]
                     /\ early' = [early EXCEPT !["live"] = @ \/ r.keys # {}]
                     /\ liveN' = Put(liveN, k, Cap2(Get(liveN, k, 0) + 1))
                     /\ lastLive' = Put(lastLive, k,
                                        [prev |-> Get(lastLive, k, [last |-> 0]).last,
                                         last |-> cd.ohlcv])
                     /\ pos' = [pos EXCEPT !["live"].t = @ + 1]
                     /\ pc' = [pc EXCEPT !["live"] = "tf"]
                     /\ UNCHANGED <<faults, jobOps>>
    /\ UNCHANGED <<config, aside, clients, paging, budget, exOps, visited, fetched, pageHist>>

\* ------------------------------------------------------------ backfill
\* collect_historical_candles up to its for-loop
StartHist == Begin("hist")

\* collect_historical_candles committing whatever the exchange returned
ExchangeOutcomeAlwaysCommit(success) == "commit"

\* collect_historical_candles after _process_exchange_historical_data
\* returned: db.commit() when it succeeded, db.rollback() when it did not
ExchangeOutcome(success) == IF success THEN "commit" ELSE "rollback"

\* db.commit() or db.rollback() on the backfill session, issued for exchange exId
HistSessionOp(op, exId) ==
    /\ store' = IF op = "commit" THEN Commit(store, pending["hist"]) ELSE store
    /\ durable' = [durable EXCEPT !["hist"] =
                     IF op = "commit" THEN @ \cup PendKeys(pending["hist"]) ELSE @]
    /\ pending' = [pending EXCEPT !["hist"] = <<>>]
    /\ jobOps' = [jobOps EXCEPT !["hist"][op] = @ + 1]
    /\ exOps' = ExBump(exOps, exId, op)

\* _process_exchange_historical_data with get_exchange_instance outside any
\* try: the error reaches the except of collect_historical_candles
HistInitErrorRaises ==
    /\ TopLevelError("hist", "init")
    /\ exOps' = ExBump(exOps, CurExchange("hist"), "rollback")
    /\ UNCHANGED <<pos, store, durable>>

\* the except of _process_exchange_historical_data around
\* get_exchange_instance: the error is logged, the exchange is left with
\* "return False" and collect_historical_candles rolls back
HistInitError ==
    /\ pos' = [pos EXCEPT !["hist"].e = @ + 1]
    /\ faults' = [faults EXCEPT !["hist"] = @ \cup {"init"}]
    /\ HistSessionOp(ExchangeOutcome(FALSE), CurExchange("hist"))
    /\ UNCHANGED pc

\* collect_historical_candles without its commit for an empty exchange list
NoExchangeCommitNever(exs) == FALSE

\* "if not entities['exchanges']: db.commit()" after the for-loop of
\* collect_historical_candles
NoExchangeCommit(exs) == exs = <<>>

\* the for-loop head of collect_historical_candles with the commit for an
\* empty exchange list and db.close(); the try block of
\* _process_exchange_historical_data, whose except returns False
HistExchange ==
    /\ pc["hist"] = "exch"
    /\ IF pos["hist"].e > Len(exchanges)
         THEN /\ store' = IF NoExchangeCommit(exchanges) THEN Commit(store, pending["hist"]) ELSE store
              /\ durable' = [durable EXCEPT !["hist"] =
                               IF NoExchangeCommit(exchanges) THEN @ \cup PendKeys(pending["hist"]) ELSE @]
              /\ pending' = [pending EXCEPT !["hist"] = IF NoExchangeCommit(exchanges) THEN <<>> ELSE @]
              /\ jobOps' = [jobOps EXCEPT !["hist"].commit = IF NoExchangeCommit(exchanges) THEN @ + 1 ELSE @,
                                          !["hist"].close = @ + 1]
              /\ pc' = [pc EXCEPT !["hist"] = "done"]
              /\ UNCHANGED <<clients, pos, faults, exOps>>
         ELSE LET r == get_exchange_instance(cache, made, CurExchange("hist")) IN
              /\ cache' = r.cache
              /\ made' = r.made
              /\ handed' = IF r.ok
                             THEN Put(handed, CurExchange("hist"),
                                      Get(handed, CurExchange("hist"), {}) \cup {r.client})
                             ELSE handed
              /\ IF r.ok
                   THEN /\ pc' = [pc EXCEPT !["hist"] = "pair"]
                        /\ pos' = [pos EXCEPT !["hist"].p = 1]
                        /\ UNCHANGED <<faults, pending, jobOps, exOps, store, durable>>
                   ELSE HistInitError
    /\ UNCHANGED <<config, aside, paging, budget, faultBudget, visited, early, liveHist, pageHist>>

\* the pair loop of _process_exchange_historical_data: the loop head, the
\* symbol text (outside the try), and "return True" after the last pair
HistPair ==
    /\ pc["hist"] = "pair"
    /\ IF pos["hist"].p > Len(pairs)
         THEN /\ HistSessionOp(ExchangeOutcome(TRUE), CurExchange("hist"))
              /\ pos' = [pos EXCEPT !["hist"].e = @ + 1]
              /\ pc' = [pc EXCEPT !["hist"] = "exch"]
              /\ UNCHANGED <<faults, visited>>
         ELSE /\ visited' = [visited EXCEPT !["hist"] =
                                @ \cup {<<CurExchange("hist"), CurPair("hist")>>}]
              /\ IF pairState[CurPair("hist")] = "norel"
                   THEN /\ TopLevelError("hist", "symbol")
                        /\ exOps' = ExBump(exOps, CurExchange("hist"), "rollback")
                        /\ UNCHANGED pos
                   ELSE /\ pc' = [pc EXCEPT !["hist"] = "tf"]
                        /\ pos' = [pos EXCEPT !["hist"].t = 1]
                        /\ UNCHANGED <<pending, faults, jobOps, exOps>>
              /\ UNCHANGED <<store, durable>>
    /\ UNCHANGED <<config, aside, clients, paging, budget, faultBudget, early, liveHist, pageHist>>

\* the timeframe loop of _process_pair_historical_data up to the awaited
\* get_missing_candles_timerange
HistTimeframe ==
    /\ pc["hist"] = "tf"
    /\ IF pos["hist"].t > Len(periods)
         THEN /\ pos' = [pos EXCEPT !["hist"].p = @ + 1]
              /\ pc' = [pc EXCEPT !["hist"] = "pair"]
         ELSE IF convert_minutes_to_timeframe(CurPeriod("hist").minutes) = "none"
           THEN /\ pos' = [pos EXCEPT !["hist"].t = @ + 1]
                /\ UNCHANGED pc
           ELSE /\ pc' = [pc EXCEPT !["hist"] = "gapq"]
                /\ UNCHANGED pos
    /\ UNCHANGED <<config, aside, store, pending, clients, paging, budget, faultBudget, jobHist,
                   liveHist, pageHist>>

\* _collect_timeframe_historical_data from the return of
\* get_missing_candles_timerange on; a raised query or symbol lookup is
\* logged by its except and the leaf is left
HistGapReturn ==
    /\ pc["hist"] = "gapq"
    /\ \E queryOk \in BOOLEAN :
         LET pid      == get_currency_pair_id(CurPair("hist"))
             existing == ExistingCandles(store, pid.id, CurExchange("hist"),
                                         CurPeriod("hist").id, StartDate)
             gaps     == get_missing_candles_timerange(existing, StartDate, now)
         IN
         /\ ~pid.ok => queryOk
         /\ ~queryOk => faultBudget > 0
         /\ faultBudget' = IF queryOk THEN faultBudget ELSE faultBudget - 1
         /\ IF pid.ok /\ queryOk
              THEN /\ ranges' = gaps
                   /\ gapIn' = existing
                   /\ gapOut' = gaps
                   /\ pc' = [pc EXCEPT !["hist"] = "range"]
                   /\ UNCHANGED <<pos, faults>>
              ELSE /\ faults' = [faults EXCEPT !["hist"] =
                                   @ \cup {IF pid.ok THEN "gapq" ELSE "lookup"}]
                   /\ pos' = [pos EXCEPT !["hist"].t = @ + 1]
                   /\ pc' = [pc EXCEPT !["hist"] = "tf"]
                   /\ UNCHANGED <<ranges, gapIn, gapOut>>
    /\ UNCHANGED <<config, aside, store, pending, clients, cursor, curRange, budget, jobOps, exOps,
                   visited, durable, early, liveHist, prevCursor, lastFetch, iters, lastGap,
                   skipped>>

\* the for-loop over missing_ranges and the first line of
\* _collect_candles_for_range (current_time = start_time)
HistRange ==
    /\ pc["hist"] = "range"
    /\ IF ranges = <<>>
         THEN /\ pos' = [pos EXCEPT !["hist"].t = @ + 1]
              /\ pc' = [pc EXCEPT !["hist"] = "tf"]
              /\ UNCHANGED <<paging, prevCursor, lastFetch, iters>>
         ELSE /\ curRange' = [start |-> Head(ranges)[1], end |-> Head(ranges)[2], clean |-> TRUE]
              /\ cursor' = Head(ranges)[1]
              /\ prevCursor' = Head(ranges)[1]
              /\ lastFetch' = NoFetch
              /\ iters' = 0
              /\ ranges' = Tail(ranges)
              /\ pc' = [pc EXCEPT !["hist"] = "while"]
              /\ UNCHANGED pos
    /\ UNCHANGED <<config, aside, store, pending, clients, budget, faultBudget, jobHist, liveHist,
                   lastGap, gapIn, gapOut, skipped>>

RangeDone == [leaf |-> CurLeaf("hist"), start |-> curRange.start, end |-> curRange.end,
              clean |-> curRange.clean]

\* the while test of _collect_candles_for_range, up to the awaited
\* fetch_historical_candles
HistWhile ==
    /\ pc["hist"] = "while"
    /\ IF cursor < curRange.end
         THEN /\ pc' = [pc EXCEPT !["hist"] = "page"]
              /\ UNCHANGED lastGap
         ELSE /\ pc' = [pc EXCEPT !["hist"] = "range"]
              /\ lastGap' = RangeDone
    /\ UNCHANGED <<config, aside, store, pending, clients, pos, paging, budget, faultBudget, jobHist,
                   liveHist, prevCursor, lastFetch, iters, gapIn, gapOut, skipped>>

\* "continue" where the code has "break": the same request is made again
OnEmptyPageRetry == "while"

\* "if not historical_candles: break" in _collect_candles_for_range: the
\* while loop ends and the for-loop over missing_ranges goes on
OnEmptyPage == "range"

\* the while body of _collect_candles_for_range from the return of
\* fetch_historical_candles on: break on an empty page, else
\* _save_historical_candles and the cursor update
HistPageReturn ==
    /\ pc["hist"] = "page"
    /\ \E answer \in HistAnswers(cursor, CurPeriod("hist").minutes) :
         LET page == fetch_historical_candles(answer) IN
         IF fetch_raises(answer)
           THEN /\ faultBudget > 0
                /\ faultBudget' = faultBudget - 1
                /\ faults' = [faults EXCEPT !["hist"] = @ \cup {"raised"}]
                /\ pos' = [pos EXCEPT !["hist"].t = @ + 1]
                /\ pc' = [pc EXCEPT !["hist"] = "tf"]
                /\ lastFetch' = FetchCall(cursor, iters + 1, page, {})
                /\ UNCHANGED <<store, pending, cursor, prevCursor, iters, curRange,
                               durable, early, skipped, lastGap>>
         ELSE IF page = <<>>
           THEN /\ answer.kind = "fail" => faultBudget > 0
                /\ faultBudget' = IF answer.kind = "fail" THEN faultBudget - 1 ELSE faultBudget
                /\ pc' = [pc EXCEPT !["hist"] = OnEmptyPage]
                /\ lastFetch' = FetchCall(cursor, iters + 1, page, {})
                /\ lastGap' = [RangeDone EXCEPT !.clean = @ /\ answer.kind # "fail"]
                /\ faults' = [faults EXCEPT !["hist"] =
                                IF answer.kind = "fail" THEN @ \cup {"fetch"} ELSE @]
                /\ UNCHANGED <<store, pending, pos, cursor, prevCursor, iters, curRange,
                               durable, early, skipped>>
           ELSE \E bad \in SUBSET (1..Len(page)) :
                LET r == save_historical_candles(store, pending["hist"], CurExchange("hist"),
                                                 CurPeriod("hist"), CurPair("hist"), page, bad)
                IN
                /\ Cardinality(bad) = r.failed
                /\ faultBudget >= r.failed
                /\ faultBudget' = faultBudget - r.failed
                /\ store' = r.store
                /\ pending' = [pending EXCEPT !["hist"] = r.pending]
                /\ durable' = [durable EXCEPT !["hist"] = @ \cup r.keys]
                /\ early' = [early EXCEPT !["hist"] = @ \/ r.keys # {}]
                /\ skipped' = skipped \cup r.skipped
                /\ lastFetch' = FetchCall(cursor, iters + 1, page, bad)
                /\ UNCHANGED lastGap
                /\ IF r.raised
                     THEN /\ faults' = [faults EXCEPT !["hist"] = @ \cup {"lookup"}]
                          /\ pos' = [pos EXCEPT !["hist"].t = @ + 1]
                          /\ pc' = [pc EXCEPT !["hist"] = "tf"]
                          /\ UNCHANGED <<cursor, prevCursor, iters, curRange>>
                     ELSE /\ faults' = [faults EXCEPT !["hist"] =
                                          IF r.failed > 0 THEN @ \cup {"write"} ELSE @]
                          /\ curRange' = [curRange EXCEPT !.clean = @ /\ r.failed = 0]
                          /\ cursor' = NextCursor(cursor, page, CurPeriod("hist").minutes)
                          /\ prevCursor' = cursor
                          /\ iters' = iters + 1
                          /\ pc' = [pc EXCEPT !["hist"] = "while"]
                          /\ UNCHANGED pos
    /\ UNCHANGED <<config, aside, clients, ranges, budget, jobOps, exOps, visited, liveHist,
                   gapIn, gapOut>>

\* ------------------------------------------------------------ dispatch
\* SessionLocal() and _get_active_entities(db) at the head of driver j while
\* the other job may be in progress: only the history of job j is dropped
BeginOwn(j) ==
    /\ ~Running(j)
    /\ budget > 0
    /\ budget' = budget - 1
    /\ visited' = [visited EXCEPT ![j] = {}]
    /\ durable' = [durable EXCEPT ![j] = {}]
    /\ early' = [early EXCEPT ![j] = FALSE]
    /\ pos' = [pos EXCEPT ![j] = [e |-> 1, p |-> 1, t |-> 1]]
    /\ pending' = [pending EXCEPT ![j] = <<>>]
    /\ IF j = "hist"
         THEN /\ exOps' = <<>>
              /\ ranges' = <<>>
              /\ cursor' = 0
              /\ curRange' = NoRange
              /\ prevCursor' = 0
              /\ lastFetch' = NoFetch
              /\ iters' = 0
              /\ lastGap' = NoGap
              /\ gapIn' = <<>>
              /\ gapOut' = <<>>
              /\ skipped' = {}
              /\ UNCHANGED <<fetched, fetchRes, upserts>>
         ELSE /\ fetched' = <<>>
              /\ fetchRes' = <<>>
              /\ upserts' = <<>>
              /\ UNCHANGED <<exOps, paging, pageHist>>
    /\ \E ok \in BOOLEAN :
         IF ok
           THEN /\ pc' = [pc EXCEPT ![j] = "exch"]
                /\ faults' = [faults EXCEPT ![j] = {}]
                /\ jobOps' = [jobOps EXCEPT ![j] = NoOps]
                /\ UNCHANGED faultBudget
           ELSE /\ faultBudget > 0
                /\ faultBudget' = faultBudget - 1
                /\ pc' = [pc EXCEPT ![j] = EntitiesError.pc]
                /\ faults' = [faults EXCEPT ![j] = {"entities"}]
                /\ jobOps' = [jobOps EXCEPT ![j] = EntitiesError.ops]
    /\ UNCHANGED <<config, store, clients, liveN, lastLive>>

\* an invocation of driver j begins for "who". The invocation is followed step
\* by step when no other invocation of job j is in progress; a further one
\* that begins meanwhile runs the same code and only its presence is kept
Start(j, who) ==
    IF origin[j] = "none"
      THEN /\ BeginOwn(j)
           /\ origin' = [origin EXCEPT ![j] = who]
           /\ UNCHANGED <<second, response, crash, timeframe, calls>>
      ELSE /\ second[j] = "none"
           /\ second' = [second EXCEPT ![j] = who]
           /\ UNCHANGED <<config, store, pending, clients, pc, pos, paging, budget,
                          faultBudget, jobHist, liveHist, pageHist, origin, response,
                          crash, timeframe, calls>>

\* the scheduler's trigger for job j fires: with max_instances=1 the run is
\* skipped while an instance the scheduler itself started is still running
SchedulerDispatch(j) ==
    /\ origin[j] # "scheduler"
    /\ second[j] # "scheduler"
    /\ Start(j, "scheduler")

DispatchLive == SchedulerDispatch("live")

DispatchHist == SchedulerDispatch("hist")

\* POST /trigger-current-collection: the handler awaits the driver
TriggerCurrent == Start("live", "endpoint")

\* POST /trigger-historical-collection: the handler awaits the driver
TriggerHistorical == Start("hist", "endpoint")

\* the envelope of a trigger endpoint: "error" when the awaited driver raised
EndpointStatus(raised) == IF raised THEN "error" ELSE "success"

\* the invocation of job j that was followed step by step returns to whoever
\* started it. Neither driver raises: its "except Exception" logs and rolls
\* back, so the handler's own except is never entered
JobReturn(j) ==
    /\ origin[j] # "none"
    /\ pc[j] = "done"
    /\ origin' = [origin EXCEPT ![j] = "none"]
    /\ response' = IF origin[j] = "endpoint"
                     THEN [response EXCEPT ![j] = [status |-> EndpointStatus(FALSE),
                                                   failed |-> jobOps[j].rollback > 0]]
                     ELSE response
    /\ UNCHANGED <<config, store, pending, clients, pc, pos, paging, budget, faultBudget,
                   jobHist, liveHist, pageHist, second, crash, timeframe, calls>>

LiveReturn == JobReturn("live")

HistReturn == JobReturn("hist")

\* a further invocation of job j ends
SecondReturn(j) ==
    /\ second[j] # "none"
    /\ second' = [second EXCEPT ![j] = "none"]
    /\ UNCHANGED <<config, store, pending, clients, pc, pos, paging, budget, faultBudget,
                   jobHist, liveHist, pageHist, origin, response, crash, timeframe, calls>>

SecondLiveReturn == SecondReturn("live")

SecondHistReturn == SecondReturn("hist")

\* the process is interrupted while a backfill is in progress: the sessions
\* and the client cache are gone, the committed rows stay
Crash ==
    /\ Running("hist")
    /\ crash.n < MaxCrashes
    /\ crash' = [n |-> crash.n + 1, keys |-> {k \in DOMAIN store : store[k] # <<>>}]
    /\ pc' = [j \in Jobs |-> "idle"]
    /\ pending' = [j \in Jobs |-> <<>>]
    /\ cache' = <<>>
    /\ made' = <<>>
    /\ handed' = <<>>
    /\ UNCHANGED <<config, store, pos, paging, budget, faultBudget, jobHist, liveHist,
                   pageHist, origin, second, response, timeframe, calls>>

\* one call of convert_minutes_to_timeframe, on the duration of the first period
ConvertTimeframe ==
    /\ timeframe = "unset"
    /\ timeframe' = convert_minutes_to_timeframe(periods[1].minutes)
    /\ UNCHANGED <<config, store, pending, clients, pc, pos, paging, budget, faultBudget,
                   jobHist, liveHist, pageHist, origin, second, response, crash, calls>>

\* one call of get_exchange_instance for any of the exchanges, made on the
\* service itself
GetExchange ==
    /\ Len(calls) < MaxCalls
    /\ \E i \in DOMAIN exchanges :
         LET r == get_exchange_instance(cache, made, exchanges[i]) IN
         /\ cache' = r.cache
         /\ made' = r.made
         /\ handed' = IF r.ok
                        THEN Put(handed, exchanges[i], Get(handed, exchanges[i], {}) \cup {r.client})
                        ELSE handed
         /\ calls' = Append(calls, [id |-> exchanges[i], ok |-> r.ok, client |-> r.client,
                                    before |-> cache, after |-> r.cache])
    /\ UNCHANGED <<config, store, pending, pc, pos, paging, budget, faultBudget,
                   jobHist, liveHist, pageHist, origin, second, response, crash, timeframe>>

\* ------------------------------------------------------------ specifications
LiveNext == StartLive \/ LiveExchange \/ LivePair \/ LiveTimeframe \/ LiveFetchReturn

HistNext == StartHist \/ HistExchange \/ HistPair \/ HistTimeframe \/ HistGapReturn
              \/ HistRange \/ HistWhile \/ HistPageReturn

InitProgram ==
    /\ pending = [j \in Jobs |-> <<>>]
    /\ cache = <<>>
    /\ made = <<>>
    /\ handed = <<>>
    /\ origin = [j \in Jobs |-> "none"]
    /\ second = [j \in Jobs |-> "none"]
    /\ response = [j \in Jobs |-> NoResponse]
    /\ crash = NoCrash
    /\ timeframe = "unset"
    /\ calls = <<>>
    /\ pc = [j \in Jobs |-> "idle"]
    /\ pos = [j \in Jobs |-> [e |-> 1, p |-> 1, t |-> 1]]
    /\ ranges = <<>>
    /\ cursor = 0
    /\ curRange = NoRange
    /\ faultBudget = MaxFaults
    /\ faults = [j \in Jobs |-> {}]
    /\ jobOps = [j \in Jobs |-> NoOps]
    /\ exOps = <<>>
    /\ visited = [j \in Jobs |-> {}]
    /\ fetched = <<>>
    /\ fetchRes = <<>>
    /\ upserts = <<>>
    /\ durable = [j \in Jobs |-> {}]
    /\ early = [j \in Jobs |-> FALSE]
    /\ liveN = <<>>
    /\ lastLive = <<>>
    /\ prevCursor = 0
    /\ lastFetch = NoFetch
    /\ iters = 0
    /\ lastGap = NoGap
    /\ gapIn = <<>>
    /\ gapOut = <<>>
    /\ skipped = {}

\* two exchanges, two pairs, a 1-minute period and a 7-minute period the
\* codec does not know; any of the exchanges may have an unsupported code and
\* any pair may lack a symbol row or its pair row; the table starts empty and
\* the source holds a candle at every minute up to "now"
Init ==
    /\ exchanges = <<1, 2>>
    /\ pairs = <<1, 2>>
    /\ periods \in {<<[id |-> 1, minutes |-> 1], [id |-> 2, minutes |-> 7]>>,
                    <<[id |-> 2, minutes |-> 7], [id |-> 1, minutes |-> 1]>>}
    /\ badCode \in SUBSET {1, 2}
    /\ pairState \in [{1, 2} -> {"ok", "norel", "nopair"}]
    /\ now = JobNow
    /\ honest = TRUE
    /\ srcTimes = 0..JobNow
    /\ store = <<>>
    /\ budget = MaxRuns
    /\ InitProgram

Next == LiveNext \/ HistNext

Spec == Init /\ [][Next]_vars

\* one exchange, one pair, the 1-minute period, both drivers run one after
\* another several times against a source that answers with any page
InitLeaf ==
    /\ exchanges = <<1>>
    /\ pairs = <<1>>
    /\ periods = <<[id |-> 1, minutes |-> 1]>>
    /\ badCode = {}
    /\ pairState = [p \in {1} |-> "ok"]
    /\ now = LeafNow
    /\ honest = FALSE
    /\ srcTimes = {}
    /\ store = <<>>
    /\ budget = LeafRuns
    /\ InitProgram

SpecLeaf == InitLeaf /\ [][Next]_vars

\* a row written by other means: its close_time is past its open_time and it
\* carries a quote volume and a trade count
ForeignRow(t) == [close_time |-> t + 1, ohlcv |-> 2, quote_volume |-> 5, trades_count |-> 7,
                  updated |-> FALSE]

\* one exchange, one pair, the 1-minute period; the table is empty or holds
\* such a row under the key of the newest candle; both drivers run one after
\* another several times against a source that answers with any page
InitUpsert ==
    /\ exchanges = <<1>>
    /\ pairs = <<1>>
    /\ periods = <<[id |-> 1, minutes |-> 1]>>
    /\ badCode = {}
    /\ pairState = [p \in {1} |-> "ok"]
    /\ now = LeafNow
    /\ honest = FALSE
    /\ srcTimes = {}
    /\ store \in {<<>>, [k \in {<<1, 1, 1, LeafNow>>} |-> <<ForeignRow(k[4])>>]}
    /\ budget = LeafRuns
    /\ InitProgram

SpecUpsert == InitUpsert /\ [][Next]_vars

\* a row as a live update left it
SeedRow(t) == [close_time |-> t, ohlcv |-> 2, quote_volume |-> 0, trades_count |-> 0,
               updated |-> FALSE]

\* one exchange, one pair, one period of 1 or 3 minutes; the table holds any
\* set of candles of the triple with open_time in [floor, now); the source is
\* either the honest one, holding any set of candles, or answers with any page.
\* One backfill invocation runs: the table it starts from is arbitrary, and so
\* stands for whatever earlier invocations left
InitBackfill ==
    /\ exchanges = <<1>>
    /\ pairs = <<1>>
    /\ \E m \in {1, 3} : periods = <<[id |-> 1, minutes |-> m]>>
    /\ badCode = {}
    /\ pairState = [p \in {1} |-> "ok"]
    /\ now = GapNow
    /\ honest \in BOOLEAN
    /\ srcTimes \in SUBSET (0..GapNow)
    /\ ~honest => srcTimes = {}
    /\ \E ts \in SUBSET (0..(GapNow - 1)) :
         store = [k \in {<<1, 1, 1, t>> : t \in ts} |-> <<SeedRow(k[4])>>]
    /\ budget = 1
    /\ InitProgram

SpecBackfill == InitBackfill /\ [][HistNext]_vars


\* one exchange, one pair, one 1-minute period, an empty table and a source
\* that answers with any page; the scheduler and the trigger endpoints start
\* the two jobs in any order, also while the other job or the same job is in
\* progress
InitOverlap ==
    /\ exchanges = <<1>>
    /\ pairs = <<1>>
    /\ periods = <<[id |-> 1, minutes |-> 1]>>
    /\ badCode = {}
    /\ pairState = [p \in {1} |-> "ok"]
    /\ now = LeafNow
    /\ honest = FALSE
    /\ srcTimes = {}
    /\ store = <<>>
    /\ budget = OverlapRuns
    /\ InitProgram

DriverSteps ==
    \/ LiveExchange \/ LivePair \/ LiveTimeframe \/ LiveFetchReturn
    \/ HistExchange \/ HistPair \/ HistTimeframe \/ HistGapReturn
    \/ HistRange \/ HistWhile \/ HistPageReturn

OverlapNext ==
    \/ DispatchLive \/ DispatchHist \/ TriggerCurrent \/ TriggerHistorical
    \/ LiveReturn \/ HistReturn \/ SecondLiveReturn \/ SecondHistReturn
    \/ DriverSteps

SpecOverlap == InitOverlap /\ [][OverlapNext]_vars

\* one exchange, one pair, one 1-minute period; the table starts empty, the
\* source is the honest one or answers with any page; backfill is invoked,
\* may be interrupted at any step, and is invoked again
InitCrash ==
    /\ exchanges = <<1>>
    /\ pairs = <<1>>
    /\ periods = <<[id |-> 1, minutes |-> 1]>>
    /\ badCode = {}
    /\ pairState = [p \in {1} |-> "ok"]
    /\ now = GapNow
    /\ honest \in BOOLEAN
    /\ srcTimes \in SUBSET (0..GapNow)
    /\ ~honest => srcTimes = {}
    /\ store = <<>>
    /\ budget = CrashRuns
    /\ InitProgram

SpecCrash == InitCrash /\ [][HistNext \/ Crash]_vars

\* the gap detector alone: one triple whose table holds any set of candles
\* with open_time from one minute before the floor up to DetNow, any "now"
\* after the floor, and the backfill of the triple standing at its gap query
InitGap ==
    /\ exchanges = <<1>>
    /\ pairs = <<1>>
    /\ periods = <<[id |-> 1, minutes |-> 1]>>
    /\ badCode = {}
    /\ pairState = [p \in {1} |-> "ok"]
    /\ now \in 1..DetNow
    /\ honest = TRUE
    /\ srcTimes = {}
    /\ \E ts \in SUBSET ((StartDate - 1)..DetNow) :
         store = [k \in {<<1, 1, 1, t>> : t \in ts} |-> <<SeedRow(k[4])>>]
    /\ budget = 0
    /\ pending = [j \in Jobs |-> <<>>]
    /\ cache = <<>>
    /\ made = <<>>
    /\ handed = <<>>
    /\ pc = [j \in Jobs |-> IF j = "hist" THEN "gapq" ELSE "idle"]
    /\ pos = [j \in Jobs |-> [e |-> 1, p |-> 1, t |-> 1]]
    /\ ranges = <<>>
    /\ cursor = 0
    /\ curRange = NoRange
    /\ faultBudget = MaxFaults
    /\ faults = [j \in Jobs |-> {}]
    /\ jobOps = [j \in Jobs |-> NoOps]
    /\ exOps = <<>>
    /\ visited = [j \in Jobs |-> {}]
    /\ fetched = <<>>
    /\ fetchRes = <<>>
    /\ upserts = <<>>
    /\ durable = [j \in Jobs |-> {}]
    /\ early = [j \in Jobs |-> FALSE]
    /\ liveN = <<>>
    /\ lastLive = <<>>
    /\ prevCursor = 0
    /\ lastFetch = NoFetch
    /\ iters = 0
    /\ lastGap = NoGap
    /\ gapIn = <<>>
    /\ gapOut = <<>>
    /\ skipped = {}
    /\ origin = [j \in Jobs |-> "none"]
    /\ second = [j \in Jobs |-> "none"]
    /\ response = [j \in Jobs |-> NoResponse]
    /\ crash = NoCrash
    /\ timeframe = "unset"
    /\ calls = <<>>

SpecGap == InitGap /\ [][HistGapReturn]_vars

\* the timeframe codec alone: one period of any duration up to MaxMinutes
InitTimeframe ==
    /\ exchanges = <<1>>
    /\ pairs = <<1>>
    /\ \E m \in 1..MaxMinutes : periods = <<[id |-> 1, minutes |-> m]>>
    /\ badCode = {}
    /\ pairState = [p \in {1} |-> "ok"]
    /\ now = LeafNow
    /\ honest = TRUE
    /\ srcTimes = {}
    /\ store = <<>>
    /\ budget = 0
    /\ InitProgram

SpecTimeframe == InitTimeframe /\ [][ConvertTimeframe]_vars

\* the client cache alone: three exchanges, any of them with an unsupported
\* code, and up to MaxCalls calls of get_exchange_instance in any order
InitClient ==
    /\ exchanges = <<1, 2, 3>>
    /\ pairs = <<1>>
    /\ periods = <<[id |-> 1, minutes |-> 1]>>
    /\ badCode \in SUBSET {1, 2, 3}
    /\ pairState = [p \in {1} |-> "ok"]
    /\ now = LeafNow
    /\ honest = TRUE
    /\ srcTimes = {}
    /\ store = <<>>
    /\ budget = 0
    /\ InitProgram

SpecClient == InitClient /\ [][GetExchange]_vars

\* one exchange, two pairs, a 1-minute and a 3-minute period; the text of
\* either pair resolves or fails one of the tests of _get_currency_pair_id;
\* the table starts empty, the source holds a candle at every minute up to
\* "now", and the backfill runs
InitSymbol ==
    /\ exchanges = <<1>>
    /\ pairs = <<1, 2>>
    /\ periods = <<[id |-> 1, minutes |-> 1], [id |-> 2, minutes |-> 3]>>
    /\ badCode = {}
    /\ pairState \in [{1, 2} -> {"ok"} \cup LookupFailures]
    /\ now = JobNow
    /\ honest = TRUE
    /\ srcTimes = 0..JobNow
    /\ store = <<>>
    /\ budget = MaxRuns
    /\ InitProgram

SpecSymbol == InitSymbol /\ [][HistNext]_vars

\* no active exchange or one, one pair, the 1-minute period, an empty table
\* and a source that answers with any page; both drivers run one after another
InitIdle ==
    /\ exchanges \in {<<>>, <<1>>}
    /\ pairs = <<1>>
    /\ periods = <<[id |-> 1, minutes |-> 1]>>
    /\ badCode = {}
    /\ pairState = [p \in {1} |-> "ok"]
    /\ now = LeafNow
    /\ honest = FALSE
    /\ srcTimes = {}
    /\ store = <<>>
    /\ budget = LeafRuns
    /\ InitProgram

SpecIdle == InitIdle /\ [][Next]_vars

\* one exchange, two active pairs, a 1-minute and a 3-minute period, an empty
\* table; the two pairs carry different BASE/QUOTE texts, or the same text
\* with the pair query returning the row of the one or of the other; the
\* live update runs
InitTwin ==
    /\ exchanges = <<1>>
    /\ pairs = <<1, 2>>
    /\ periods = <<[id |-> 1, minutes |-> 1], [id |-> 2, minutes |-> 3]>>
    /\ badCode = {}
    /\ pairState \in {[p \in {1, 2} |-> "ok"],
                      [p \in {1, 2} |-> IF p = 1 THEN "twin" ELSE "ok"],
                      [p \in {1, 2} |-> IF p = 2 THEN "twin" ELSE "ok"]}
    /\ now = LeafNow
    /\ honest = FALSE
    /\ srcTimes = {}
    /\ store = <<>>
    /\ budget = MaxRuns
    /\ InitProgram

SpecTwin == InitTwin /\ [][LiveNext]_vars


\* ------------------------------------------------------------ properties
\* C1: the candle table never holds two rows with the same natural key
\* (pair, exchange, period, open time), whatever the live update and the
\* backfill wrote and in whatever order they ran.
OneRowPerKey == \A k \in DOMAIN store : Len(store[k]) <= 1

\* a key the live update wrote and a later backfill page brought again
OneRowPerKeyWitness ==
    \E k \in skipped : Get(liveN, k, 0) >= 1 /\ Len(Rows(store, k)) = 1

\* C2: after _save_or_update_candle ran for a key (twice in particular), the
\* table holds exactly one row for the key and the row carries the values of
\* the last call.
UpsertKeepsLastValues ==
    \A k \in DOMAIN lastLive :
        /\ Len(Rows(store, k)) = 1
        /\ store[k][1].ohlcv = lastLive[k].last
        /\ store[k][1].close_time = k[4]

\* two calls for one key with different values, the second through the
\* update branch
UpsertKeepsLastValuesWitness ==
    \E k \in DOMAIN lastLive :
        /\ Get(liveN, k, 0) = 2
        /\ lastLive[k].prev # lastLive[k].last
        /\ Rows(store, k) # <<>>
        /\ store[k][1].updated

GapQueried == gapIn # <<>> \/ gapOut # <<>>

GapMinutes == UNION {gapOut[i][1]..(gapOut[i][2] - 1) : i \in DOMAIN gapOut}

StoredSpans(minutes) == UNION {t..(t + minutes - 1) : t \in Range(gapIn)}

\* C3: for a triple whose stored candles all open in [floor, now), the ranges
\* get_missing_candles_timerange returns are non-empty, ascending and pairwise
\* disjoint, and together with the spans of the stored candles they make up
\* [floor, now) exactly: no minute of the window is left out and no range
\* reaches outside it.
GapsCoverWindow ==
    (GapQueried /\ \A i \in DOMAIN gapIn : gapIn[i] >= StartDate /\ gapIn[i] < now) =>
        /\ \A i \in DOMAIN gapOut : gapOut[i][1] < gapOut[i][2]
        /\ \A i \in 1..(Len(gapOut) - 1) : gapOut[i][2] <= gapOut[i + 1][1]
        /\ GapMinutes \cup (StoredSpans(periods[1].minutes) \cap (StartDate..(now - 1)))
             = StartDate..(now - 1)

\* a window with a stored candle between two returned ranges
GapsCoverWindowWitness ==
    /\ Len(gapOut) >= 2
    /\ Len(gapIn) >= 1
    /\ \A i \in DOMAIN gapIn : gapIn[i] < now

InRange == pc["hist"] \in {"while", "page"}

\* C4: inside _collect_candles_for_range every pass of the loop leaves the
\* cursor strictly later than it found it, by at least one period, whatever the
\* source answers (also pages with no candle later than since); so the number
\* of passes over a range is bounded by the length of the range.
CursorAdvances ==
    InRange =>
        /\ iters > 0 => cursor > prevCursor
        /\ cursor >= curRange.start + iters * CurPeriod("hist").minutes
        /\ iters <= curRange.end - curRange.start

\* a pass whose page held no candle later than since: the cursor jumped
CursorAdvancesWitness ==
    /\ ~honest
    /\ pc["hist"] = "while"
    /\ iters >= 1
    /\ cursor = prevCursor + NoProgressFactor * CurPeriod("hist").minutes

GapSourceTimes ==
    {t \in srcTimes : /\ t % periods[1].minutes = 0
                      /\ lastGap.start <= t
                      /\ t < lastGap.end}

\* C5: with a source that answers each request with its earliest candles at or
\* after since, ascending, on the period's grid, at most limit of them, and with
\* no fetch or write failing, every candle of the source that opens inside a
\* gap is stored once _collect_candles_for_range is through with the gap, also
\* when the gap takes several pages.
GapFullyStored ==
    (honest /\ lastGap # NoGap /\ lastGap.clean) =>
        \A t \in GapSourceTimes :
            Rows(store, <<lastGap.leaf[2], lastGap.leaf[1], lastGap.leaf[3], t>>) # <<>>

\* a gap that took two pages and held more candles than one page carries
GapFullyStoredWitness ==
    /\ honest
    /\ pc["hist"] = "range"
    /\ lastGap # NoGap
    /\ lastGap.clean
    /\ iters >= 2
    /\ Cardinality(GapSourceTimes) > Limit

SupportedPeriods == {tp \in Range(periods) : convert_minutes_to_timeframe(tp.minutes) # "none"}

\* the leaves of the exchanges whose client can be built
GoodLeaves ==
    {<<e, p, tp.id>> : e \in Range(exchanges) \ badCode, p \in Range(pairs),
                       tp \in SupportedPeriods}

LeafKey(leaf, t) == <<leaf[2], leaf[1], leaf[3], t>>

\* C6: in a live update over two exchanges where building the client of one
\* raises and nothing else fails, every pair and supported period of the other
\* exchange is fetched and its candle is stored with the fetched values, the
\* job commits once, rolls back nothing and closes the session once.
LiveSurvivesInitFailure ==
    (pc["live"] = "done" /\ Cardinality(badCode) = 1 /\ faults["live"] = {"init"}) =>
        /\ \A leaf \in GoodLeaves :
              /\ leaf \in DOMAIN fetchRes
              /\ fetchRes[leaf] # NoCandle =>
                    LET rows == Rows(store, LeafKey(leaf, fetchRes[leaf].timestamp)) IN
                    /\ Len(rows) = 1
                    /\ rows[1].ohlcv = fetchRes[leaf].ohlcv
        /\ jobOps["live"] = [commit |-> 1, rollback |-> 0, close |-> 1]

\* the first exchange fails to build, every leaf of the second got a candle
LiveSurvivesInitFailureWitness ==
    /\ pc["live"] = "done"
    /\ badCode = {exchanges[1]}
    /\ faults["live"] = {"init"}
    /\ GoodLeaves # {}
    /\ \A leaf \in GoodLeaves :
          /\ leaf \in DOMAIN fetchRes
          /\ fetchRes[leaf] # NoCandle
          /\ Rows(store, LeafKey(leaf, fetchRes[leaf].timestamp)) # <<>>

\* C7: in a live update whose pair texts can all be built, a failed fetch, a
\* failed pair lookup or a failed write in one leaf stays in that leaf: no leaf
\* is fetched twice, and when the invocation ends every leaf of an exchange
\* whose client could be built, with a supported period, was fetched once.
LeafFailureIsolated ==
    /\ \A leaf \in DOMAIN fetched : fetched[leaf] <= 1
    /\ (pc["live"] = "done" /\ faults["live"] \cap {"entities", "symbol"} = {}) =>
          \A leaf \in GoodLeaves : Get(fetched, leaf, 0) = 1

\* an invocation that met a failed pair lookup and a failed fetch or write
LeafFailureIsolatedWitness ==
    /\ pc["live"] = "done"
    /\ "lookup" \in faults["live"]
    /\ faults["live"] \cap {"fetch", "write"} # {}
    /\ faults["live"] \cap {"entities", "symbol"} = {}
    /\ Cardinality(GoodLeaves) >= 2
    /\ \A leaf \in GoodLeaves : Get(fetched, leaf, 0) = 1

\* C8: whatever fails while the pair loop of an exchange handles one pair, from
\* building the pair's BASE/QUOTE text to storing its candles, only that pair
\* is skipped; in both drivers every pair of every exchange whose client could
\* be built is reached before the invocation ends.
PairFailureSkipsOnlyThatPair ==
    \A j \in Jobs :
        (pc[j] = "done" /\ "entities" \notin faults[j]) =>
            \A e \in Range(exchanges) \ badCode, p \in Range(pairs) : <<e, p>> \in visited[j]

BackfillCommitPerExchange ==
    (pc["hist"] # "idle" /\ "entities" \notin faults["hist"]) =>
        /\ \A i \in DOMAIN exchanges :
              LET o == Get(exOps, exchanges[i], NoExOps) IN
              IF i < pos["hist"].e
                THEN IF exchanges[i] \in badCode
                       THEN o = [commit |-> 0, rollback |-> 1]
                       ELSE o = [commit |-> 1, rollback |-> 0]
                ELSE IF i = pos["hist"].e /\ pc["hist"] = "done"
                       THEN o = [commit |-> 0, rollback |-> 1]
                       ELSE o = NoExOps
        /\ \A k \in durable["hist"] : Rows(store, k) # <<>>
        /\ jobOps["hist"].close = IF pc["hist"] = "done" THEN 1 ELSE 0

\* the first exchange stored candles and was committed, the second failed and
\* was rolled back
BackfillCommitPerExchangeWitness ==
    /\ pc["hist"] = "done"
    /\ Len(exchanges) = 2
    /\ Get(exOps, exchanges[1], NoExOps) = [commit |-> 1, rollback |-> 0]
    /\ Get(exOps, exchanges[2], NoExOps) = [commit |-> 0, rollback |-> 1]
    /\ \E k \in durable["hist"] : k[2] = exchanges[1] /\ Rows(store, k) # <<>>

InProgress(j) ==
    (IF origin[j] # "none" THEN 1 ELSE 0) + (IF second[j] # "none" THEN 1 ELSE 0)

\* C11: at no time are two invocations of the same job in progress, whether
\* the scheduler or a trigger endpoint started them.
OneExecutionPerJob == \A j \in Jobs : InProgress(j) <= 1

\* C12: when a live update and a backfill overlap in one process and take
\* turns only where they await a fetch or the gap query, the table never
\* holds two rows with one natural key, although no unique index guards it.
OverlapKeepsKeysUnique == \A k \in DOMAIN store : Len(Rows(store, k)) < 2

\* both jobs in progress; the live update wrote a key in this invocation and
\* the backfill then met the same key in a page
OverlapKeepsKeysUniqueWitness ==
    /\ Running("live")
    /\ Running("hist")
    /\ \E k \in skipped \cap durable["live"] : Len(Rows(store, k)) = 1

\* C13: when a backfill is interrupted at any step and backfill runs again
\* against the same source, every candle stored at the interruption is still
\* stored, and no natural key has a second row.
CrashKeepsCommitted ==
    /\ \A k \in crash.keys : Len(Rows(store, k)) = 1
    /\ \A k \in DOMAIN store : Len(store[k]) \in {0, 1}

\* an interrupted backfill had stored candles; the next one ran to its end,
\* met a candle stored before the interruption and stored further ones
CrashKeepsCommittedWitness ==
    /\ crash.n = 1
    /\ pc["hist"] = "done"
    /\ crash.keys # {}
    /\ skipped \cap crash.keys # {}
    /\ durable["hist"] \ crash.keys # {}

\* the steps of the period's grid inside the last range the backfill paged
GapGrid ==
    {t \in lastGap.start..(lastGap.end - 1) : t % periods[1].minutes = 0}

\* what the gap detector returns for the leaf on the table as it stands
GapsNow ==
    get_missing_candles_timerange(
        ExistingCandles(store, lastGap.leaf[2], lastGap.leaf[1], lastGap.leaf[3], StartDate),
        StartDate, now)

\* C14: after a backfill in which nothing failed and the source held a candle
\* at every step of the period's grid inside a detected gap G, the gap
\* detector, called again for the triple, returns no range inside G, for
\* every supported period.
FilledGapStaysFilled ==
    (/\ pc["hist"] = "done"
     /\ honest
     /\ faults["hist"] = {}
     /\ lastGap # NoGap
     /\ lastGap.clean
     /\ GapGrid # {}
     /\ GapGrid \subseteq srcTimes) =>
        \A i \in DOMAIN GapsNow :
            ~(lastGap.start <= GapsNow[i][1] /\ GapsNow[i][2] <= lastGap.end)

StoredTimes == {k[4] : k \in {x \in DOMAIN store : store[x] # <<>>}}

\* C15: for a triple with no candle stored at or after the floor the gap
\* detector returns exactly one range, from the floor to the current time.
EmptyTripleOneGap ==
    (pc["hist"] = "range" /\ \A t \in StoredTimes : t < StartDate) =>
        gapOut = << <<StartDate, now>> >>

\* the query ran for a triple whose only candle opens before the floor
EmptyTripleOneGapWitness ==
    /\ pc["hist"] = "range"
    /\ StoredTimes = {StartDate - 1}
    /\ gapOut = << <<StartDate, now>> >>

\* C16: with the floor at minute 0, one stored 1-minute candle at minute 5
\* and now at minute 10, the gap detector returns the two ranges [0, 5) and
\* [6, 10), in this order.
OneCandleTwoGaps ==
    (/\ pc["hist"] = "range"
     /\ periods[1].minutes = 1
     /\ StoredTimes = {StartDate + 5}
     /\ now = StartDate + 10) =>
        gapOut = << <<StartDate, StartDate + 5>>, <<StartDate + 6, StartDate + 10>> >>

\* the query ran on exactly this table
OneCandleTwoGapsWitness ==
    /\ pc["hist"] = "range"
    /\ periods[1].minutes = 1
    /\ StoredTimes = {StartDate + 5}
    /\ now = StartDate + 10
    /\ Len(gapOut) = 2

DocumentedDurations == {1, 3, 5, 15, 30, 60, 120, 240, 360, 480, 720, 1440, 10080, 43200}

\* C17: convert_minutes_to_timeframe returns a token for the documented
\* durations and for no other positive duration, and no two documented
\* durations get the same token.
CodecTable ==
    /\ timeframe # "unset" =>
          (timeframe # "none" <=> periods[1].minutes \in DocumentedDurations)
    /\ \A a, b \in DocumentedDurations :
          a # b => convert_minutes_to_timeframe(a) # convert_minutes_to_timeframe(b)

\* the codec answered "none" for 7 minutes
CodecTableWitness ==
    /\ periods[1].minutes = 7
    /\ timeframe = "none"

\* C18: whatever calls of get_exchange_instance were made, by one job or by
\* overlapping jobs, the cache holds one client for an exchange id, the
\* client of an id was constructed at most once, and every call for the id
\* returned that client.
ClientPerExchange ==
    \A id \in DOMAIN cache \cup DOMAIN made \cup DOMAIN handed :
        /\ Get(made, id, 0) <= 1
        /\ Cardinality(Get(handed, id, {})) <= 1
        /\ id \in DOMAIN cache => Get(handed, id, {}) \subseteq {cache[id]}
        /\ Get(handed, id, {}) # {} => id \in DOMAIN cache

\* a live update and a backfill in progress at once, both past their call
\* of get_exchange_instance for the same exchange
ClientPerExchangeWitness ==
    /\ origin["live"] # "none" /\ origin["hist"] # "none"
    /\ pc["live"] \in {"pair", "tf", "fetch"}
    /\ pc["hist"] \in {"pair", "tf", "gapq", "range", "while", "page"}
    /\ exchanges[pos["live"].e] = exchanges[pos["hist"].e]
    /\ Get(made, exchanges[pos["live"].e], 0) = 1
    /\ Get(handed, exchanges[pos["live"].e], {}) = {1}

\* C19: when the driver a trigger endpoint ran has failed (it rolled back at
\* its top level, for example because the active entities could not be
\* loaded), the endpoint answers with status "error"; it answers "success"
\* only for a run that did not fail.
EndpointReportsFailure ==
    \A j \in Jobs :
        /\ response[j].failed => response[j].status = "error"
        /\ response[j].status = "success" => ~response[j].failed

StoredKeys(st) == {k \in DOMAIN st : st[k] # <<>>}

\* C20: no step of a live update or of a backfill, failing and rolled back
\* or not, removes a stored candle row: every natural key that is stored
\* stays stored, with no fewer rows.
CandlesNeverRemoved ==
    [][\A k \in StoredKeys(store) : Len(Rows(store', k)) >= Len(store[k])]_vars

\* an invocation that wrote nothing ended in its top-level rollback with
\* the candles of an earlier invocation in the table
CandlesNeverRemovedWitness ==
    \E j \in Jobs :
        /\ pc[j] = "done"
        /\ jobOps[j].rollback >= 1
        /\ durable[j] = {}
        /\ Cardinality(StoredKeys(store)) >= 2

\* where x stands in the sequence seq
Idx(seq, x) == CHOOSE i \in DOMAIN seq : seq[i] = x

\* the place of a leaf in the order in which a driver walks the leaves
LeafRank(leaf) ==
    ((Idx(exchanges, leaf[1]) * Len(pairs)) + Idx(pairs, leaf[2])) * (Len(periods) + 1)
        + CHOOSE i \in DOMAIN periods : periods[i].id = leaf[3]

\* leaves for which _save_or_update_candle raised / returned in this live update
WriteFailed == {leaf \in DOMAIN upserts : \E i \in DOMAIN upserts[leaf] : upserts[leaf][i].raised}

Written == {leaf \in DOMAIN upserts : \E i \in DOMAIN upserts[leaf] : ~upserts[leaf][i].raised}

\* C21: in a live update the rollback after a failed candle write touches
\* that candle only: the row of every leaf written in the invocation is and
\* stays stored with the values written, and when the invocation ends every
\* leaf that fetched a candle and did not fail itself has been written.
WriteFailureIsolated ==
    /\ \A leaf \in Written :
          LET cd   == upserts[leaf][Len(upserts[leaf])].candle
              rows == Rows(store, LeafKey(leaf, cd.timestamp))
          IN Len(rows) = 1 /\ rows[1].ohlcv = cd.ohlcv
    /\ (pc["live"] = "done" /\ faults["live"] \cap {"entities", "symbol"} = {}) =>
          \A leaf \in GoodLeaves :
              (leaf \in DOMAIN fetchRes /\ fetchRes[leaf] # NoCandle) =>
                  leaf \in Written \cup WriteFailed

\* a live update ended in which the commit of one candle failed, between a
\* leaf written before it and a leaf written after it
WriteFailureIsolatedWitness ==
    /\ pc["live"] = "done"
    /\ "write" \in faults["live"]
    /\ \E f \in WriteFailed, a \in Written, b \in Written :
          LeafRank(a) < LeafRank(f) /\ LeafRank(f) < LeafRank(b)

\* C22: a live update whose load of the active exchanges, pairs and periods
\* failed rolls back once, commits nothing, closes its session once and
\* returns to its caller; it fetched and wrote nothing.
EntitiesFailureEndsLive ==
    "entities" \in faults["live"] =>
        /\ pc["live"] = "done"
        /\ jobOps["live"] = [commit |-> 0, rollback |-> 1, close |-> 1]
        /\ pending["live"] = <<>>
        /\ durable["live"] = {}
        /\ fetched = <<>>

\* such a live update, started when candles were already stored
EntitiesFailureEndsLiveWitness ==
    /\ "entities" \in faults["live"]
    /\ pc["live"] = "done"
    /\ jobOps["live"].rollback = 1
    /\ \E k \in DOMAIN store : store[k] # <<>>

\* C23: within one gap the first fetch of the backfill asks for the candles
\* since the start of the gap, every fetch asks for 1000 candles, a non-empty
\* page whose last candle opens after the cursor moves the cursor to that
\* open time plus one period, a non-empty page whose last candle does not
\* moves it by 100 periods, and after an empty page the gap is left with no
\* further fetch.
PagingRule ==
    lastFetch # NoFetch =>
        LET pg == lastFetch.page IN
        /\ lastFetch.limit = 1000
        /\ lastFetch.k = 1 => lastFetch.since = curRange.start
        /\ pg = <<>> => pc["hist"] \notin {"while", "page"}
        /\ (pg # <<>> /\ pc["hist"] \in {"while", "page"}) =>
              LET m    == CurPeriod("hist").minutes
                  last == pg[Len(pg)].timestamp
              IN cursor = IF last > lastFetch.since THEN last + m
                                                    ELSE lastFetch.since + 100 * m

\* the second page of a gap brought no candle after the cursor the first
\* page had advanced, and the cursor jumped
PagingRuleWitness ==
    /\ pc["hist"] = "while"
    /\ lastFetch.k = 2
    /\ lastFetch.since > curRange.start
    /\ lastFetch.page # <<>>
    /\ lastFetch.page[Len(lastFetch.page)].timestamp <= lastFetch.since
    /\ cursor = lastFetch.since + 100 * CurPeriod("hist").minutes

\* C24: when the write of a candle of a backfill page fails, every other
\* candle of the page is stored afterwards, under one row, and the paging
\* loop of the gap goes on as long as the cursor has not reached its end.
PageFailureIsolated ==
    (lastFetch # NoFetch /\ lastFetch.bad # {}) =>
        /\ cursor < curRange.end => pc["hist"] \in {"while", "page"}
        /\ pc["hist"] \in {"while", "page"} =>
              \A i \in DOMAIN lastFetch.page \ lastFetch.bad :
                  Len(Rows(store, LeafKey(CurLeaf("hist"), lastFetch.page[i].timestamp))) = 1

\* the write of the first candle of a page failed, the second candle was
\* inserted and the loop is about to fetch the next page
PageFailureIsolatedWitness ==
    /\ pc["hist"] = "page"
    /\ lastFetch.bad = {1}
    /\ Len(lastFetch.page) = 2
    /\ lastFetch.page[1].timestamp # lastFetch.page[2].timestamp
    /\ LeafKey(CurLeaf("hist"), lastFetch.page[2].timestamp) \in durable["hist"]
    /\ Rows(store, LeafKey(CurLeaf("hist"), lastFetch.page[1].timestamp)) = <<>>

\* C25: in a backfill, for an exchange whose client cannot be built no pair
\* is taken up (so nothing is fetched) and no candle is written or waiting,
\* the exchange is taken up only once in the invocation, ending in one
\* rollback, and every other exchange has all its pairs taken up and its
\* commit issued.
BackfillInitFailureSkipsExchange ==
    /\ \A e \in badCode :
          /\ \A p \in Range(pairs) : <<e, p>> \notin visited["hist"]
          /\ \A k \in durable["hist"] \cup PendKeys(pending["hist"]) : k[2] # e
          /\ Get(exOps, e, NoExOps).commit = 0
          /\ Get(exOps, e, NoExOps).rollback <= 1
    /\ (pc["hist"] = "done" /\ faults["hist"] \cap {"entities", "symbol"} = {}) =>
          \A e \in Range(exchanges) :
              IF e \in badCode
                THEN Get(exOps, e, NoExOps) = [commit |-> 0, rollback |-> 1]
                ELSE /\ \A p \in Range(pairs) : <<e, p>> \in visited["hist"]
                     /\ Get(exOps, e, NoExOps) = [commit |-> 1, rollback |-> 0]

\* a backfill ended in which the client of the first exchange could not be
\* built and candles of the second exchange were stored
BackfillInitFailureSkipsExchangeWitness ==
    /\ pc["hist"] = "done"
    /\ badCode = {exchanges[1]}
    /\ "init" \in faults["hist"]
    /\ Get(exOps, exchanges[1], NoExOps).rollback = 1
    /\ \E k \in durable["hist"] : k[2] = exchanges[2] /\ Rows(store, k) # <<>>

\* C26: a call of get_exchange_instance for an exchange with an unsupported
\* code raises and leaves the cache as it was, so the cache never holds an
\* entry for such an exchange and every later call for it goes to the
\* construction again and raises again.
UnsupportedNeverCached ==
    /\ DOMAIN cache \cap badCode = {}
    /\ \A i \in DOMAIN calls :
          calls[i].id \in badCode =>
              /\ ~calls[i].ok
              /\ calls[i].after = calls[i].before
              /\ calls[i].id \notin DOMAIN calls[i].before

\* two calls for one unsupported exchange, both raised, with a client of
\* another exchange built and cached between them
UnsupportedNeverCachedWitness ==
    /\ Len(calls) = 3
    /\ calls[1].id \in badCode /\ calls[3].id = calls[1].id
    /\ ~calls[1].ok /\ ~calls[3].ok
    /\ calls[2].ok
    /\ calls[3].before = calls[2].after
    /\ DOMAIN cache = {calls[2].id}

\* C27: a failure of the data source during a fetch does not reach the
\* drivers as an exception: the fetch hands back no candle or an empty page,
\* nothing is rolled back for it, and an invocation that met nothing but
\* such failures ends with every leaf fetched, every fetched candle written
\* and, in the backfill, every exchange committed.
FetchFailureContained ==
    /\ \A j \in Jobs : "raised" \notin faults[j]
    /\ \A j \in Jobs : faults[j] = {"fetch"} => jobOps[j].rollback = 0
    /\ (pc["live"] = "done" /\ faults["live"] = {"fetch"}) =>
          \A leaf \in GoodLeaves :
              /\ Get(fetched, leaf, 0) = 1
              /\ fetchRes[leaf] # NoCandle => leaf \in Written
    /\ (pc["hist"] = "done" /\ faults["hist"] = {"fetch"}) =>
          \A e \in Range(exchanges) :
              Get(exOps, e, NoExOps) = [commit |-> 1, rollback |-> 0]

\* a live update ended in which one fetch failed and a later fetch on the
\* same client brought a candle, which was written
FetchFailureContainedWitness ==
    /\ pc["live"] = "done"
    /\ faults["live"] = {"fetch"}
    /\ \E a \in GoodLeaves :
          /\ fetchRes[a] = NoCandle
          /\ GoodLeaves \ {a} \subseteq Written
          /\ \E b \in Written : b[1] = a[1] /\ LeafRank(a) < LeafRank(b)
          /\ Get(handed, a[1], {}) = {1}

\* periods with one of the documented durations, and the leaves over them
TokenIds == {tp.id : tp \in {x \in Range(periods) : x.minutes \in DocumentedDurations}}

TokenLeaves ==
    {<<e, p, id>> : e \in Range(exchanges) \ badCode, p \in Range(pairs), id \in TokenIds}

\* C28: for a period whose duration the codec has no token for, neither
\* driver fetches and no candle is written or waiting, the skip is no
\* failure (an invocation in which nothing else fails records none and
\* rolls back nothing), and the supported periods of the same pair are
\* fetched and, in the backfill, stored.
UnsupportedPeriodSkipped ==
    /\ \A leaf \in DOMAIN fetched : leaf[3] \in TokenIds
    /\ pc["hist"] \in {"gapq", "range", "while", "page"} =>
          CurPeriod("hist").id \in TokenIds
    /\ \A k \in StoredKeys(store) : k[3] \in TokenIds
    /\ \A j \in Jobs : \A k \in PendKeys(pending[j]) : k[3] \in TokenIds
    /\ \A j \in Jobs :
          (pc[j] = "done" /\ faultBudget = MaxFaults /\ badCode = {}
             /\ \A p \in Range(pairs) : pairState[p] = "ok") =>
              /\ faults[j] = {}
              /\ jobOps[j].rollback = 0
    /\ (pc["live"] = "done" /\ faults["live"] = {}) =>
          \A leaf \in TokenLeaves : Get(fetched, leaf, 0) = 1
    /\ (pc["hist"] = "done" /\ faults["hist"] = {}) =>
          \A leaf \in TokenLeaves :
              \E k \in StoredKeys(store) : <<k[2], k[1], k[3]>> = leaf

\* a live update ended without any failure in which the period the codec
\* has no token for came first for every pair, and the candle of the period
\* after it was fetched and written for every pair
UnsupportedPeriodSkippedWitness ==
    /\ pc["live"] = "done"
    /\ faults["live"] = {}
    /\ jobOps["live"] = [commit |-> 1, rollback |-> 0, close |-> 1]
    /\ periods[1].minutes \notin DocumentedDurations
    /\ Cardinality(TokenLeaves) = 4
    /\ TokenLeaves \subseteq Written

\* C29: in a live update a leaf whose fetch returned no candle gets no call
\* of _save_or_update_candle and the step leaves the table and the session
\* as they were; a leaf whose fetch returned a candle gets exactly one call,
\* with that candle.
NoCandleNoWrite ==
    /\ [](\A leaf \in DOMAIN fetchRes :
            IF fetchRes[leaf] = NoCandle
              THEN leaf \notin DOMAIN upserts
              ELSE /\ leaf \in DOMAIN upserts
                   /\ Len(upserts[leaf]) = 1
                   /\ upserts[leaf][1].candle = fetchRes[leaf])
    /\ [][(/\ pc["live"] = "fetch"
           /\ pc'["live"] # "fetch"
           /\ CurLeaf("live") \in DOMAIN fetchRes'
           /\ fetchRes'[CurLeaf("live")] = NoCandle) =>
              (store' = store /\ pending' = pending)]_vars

\* in one live update the fetch of one leaf returned nothing and the fetch
\* of another returned a candle, and only the second left a row
NoCandleNoWriteWitness ==
    /\ pc["live"] = "done"
    /\ faults["live"] = {}
    /\ \E a, b \in DOMAIN fetchRes :
          /\ fetchRes[a] = NoCandle
          /\ fetchRes[b] # NoCandle
          /\ Len(upserts[b]) = 1
          /\ a \notin DOMAIN upserts
          /\ \A t \in 0..now : Rows(store, LeafKey(a, t)) = <<>>
          /\ Rows(store, LeafKey(b, fetchRes[b].timestamp)) # <<>>

\* C30: a call of _save_or_update_candle that returns changes the table
\* under the key of the candle only. When the key held no row it holds one
\* afterwards, with close_time equal to the open time, the values of the
\* candle, quote_volume 0 and trades_count 0. When it held a row no row is
\* added: the values of the candle, quote_volume and trades_count are
\* overwritten, updated_at is set, and close_time stays as it was.
UpsertInsertsOrOverwrites ==
    [][(/\ pc["live"] = "fetch"
        /\ upserts' # upserts
        /\ CurLeaf("live") \in DOMAIN upserts'
        /\ ~upserts'[CurLeaf("live")][Len(upserts'[CurLeaf("live")])].raised) =>
          LET leaf == CurLeaf("live")
              cd   == upserts'[leaf][Len(upserts'[leaf])].candle
              k    == LeafKey(leaf, cd.timestamp)
          IN /\ DOMAIN store' = DOMAIN store \cup {k}
             /\ \A x \in DOMAIN store \ {k} : store'[x] = store[x]
             /\ IF Rows(store, k) = <<>>
                  THEN store'[k] = <<[close_time |-> cd.timestamp, ohlcv |-> cd.ohlcv,
                                      quote_volume |-> 0, trades_count |-> 0,
                                      updated |-> FALSE]>>
                  ELSE /\ Len(store'[k]) = Len(store[k])
                       /\ Tail(store'[k]) = Tail(store[k])
                       /\ store'[k][1] = [close_time |-> store[k][1].close_time,
                                          ohlcv |-> cd.ohlcv, quote_volume |-> 0,
                                          trades_count |-> 0, updated |-> TRUE]]_vars

\* a row written by other means was overwritten by a live update: new
\* values, volumes reset, updated_at set, its close_time kept
UpsertInsertsOrOverwritesWitness ==
    \E k \in DOMAIN lastLive :
        /\ Len(Rows(store, k)) = 1
        /\ store[k][1].updated
        /\ store[k][1].close_time = k[4] + 1
        /\ store[k][1].quote_volume = 0
        /\ store[k][1].ohlcv = 1

\* pairs whose BASE/QUOTE text _get_currency_pair_id does not resolve
Unresolvable == {p \in Range(pairs) : pairState[p] \in LookupFailures}

\* C31: when the text of a pair cannot be resolved (it does not split at a
\* '/', the base symbol, the quote symbol or the pair row is absent), the gap
\* detector raises and returns no ranges, the backfill neither fetches nor
\* writes for that leaf (it never enters the paging of the leaf and no row of
\* the pair is stored), and every other leaf is processed: all pairs are
\* taken up and the leaves of the pairs that resolve are stored.
UnresolvedSymbolSkipsLeaf ==
    /\ [](/\ pc["hist"] \in {"range", "while", "page"} => CurPair("hist") \notin Unresolvable
          /\ \A k \in StoredKeys(store) : k[1] \notin Unresolvable
          /\ (pc["hist"] = "done" /\ faults["hist"] \subseteq {"lookup"}) =>
                /\ Unresolvable # {} => "lookup" \in faults["hist"]
                /\ \A e \in Range(exchanges), p \in Range(pairs) :
                      /\ <<e, p>> \in visited["hist"]
                      /\ p \notin Unresolvable =>
                            \A tp \in Range(periods) : <<p, e, tp.id, 0>> \in StoredKeys(store))
    /\ [][(pc["hist"] = "gapq" /\ CurPair("hist") \in Unresolvable) =>
            /\ pc'["hist"] = "tf"
            /\ pos'["hist"] = [pos["hist"] EXCEPT !.t = @ + 1]
            /\ UNCHANGED <<store, pending, ranges, gapOut, lastFetch, durable>>]_vars

\* a finished backfill whose first pair could not be resolved and whose second
\* pair has both its leaves stored
UnresolvedSymbolSkipsLeafWitness ==
    /\ pc["hist"] = "done"
    /\ pairState[pairs[1]] \in LookupFailures
    /\ pairState[pairs[2]] = "ok"
    /\ faults["hist"] = {"lookup"}
    /\ \A tp \in Range(periods) : <<pairs[2], 1, tp.id, 0>> \in StoredKeys(store)
    /\ \A k \in StoredKeys(store) : k[1] = pairs[2]

\* current_time of get_missing_candles_timerange after the first i stored
\* candles of the last gap query
CursorAfter(i) == GapWalk(SubSeq(gapIn, 1, i), StartDate, <<>>).current_time

\* C32: after each stored candle the gap detector sets its cursor to
\* max(cursor, open_time + 1 minute), whatever the duration of the triple's
\* period: the cursor never moves backwards, two stored candles one minute
\* apart have no returned range between them, and the returned ranges are
\* exactly the minutes of [floor, now) at which no stored candle opens.
GapStepIsOneMinute ==
    GapQueried =>
        /\ \A i \in DOMAIN gapIn :
              /\ CursorAfter(i) = Max(CursorAfter(i - 1), gapIn[i] + 1)
              /\ CursorAfter(i) >= CursorAfter(i - 1)
        /\ \A i \in 1..(Len(gapIn) - 1) :
              gapIn[i + 1] = gapIn[i] + 1 =>
                  \A g \in DOMAIN gapOut :
                      gapOut[g][2] <= gapIn[i] \/ gapOut[g][1] >= gapIn[i + 1] + 1
        /\ GapMinutes = (StartDate..(now - 1)) \ Range(gapIn)

\* a triple with a 3-minute period holding two candles one minute apart, and
\* a range returned after them
GapStepIsOneMinuteWitness ==
    /\ periods[1].minutes = 3
    /\ \E i \in 1..(Len(gapIn) - 1) : gapIn[i + 1] = gapIn[i] + 1
    /\ gapOut # <<>>
    /\ gapOut[Len(gapOut)][1] = gapIn[Len(gapIn)] + 1

\* C33: with no active exchange, an invocation of either driver that loaded
\* its entities issues exactly one commit and no rollback, closes its session
\* exactly once, and fetches nothing: it never reaches a fetch, builds no
\* client and stores no row.
NoExchangeOneCommit ==
    exchanges = <<>> =>
        /\ \A j \in Jobs :
              /\ pc[j] \in {"idle", "exch", "done"}
              /\ pc[j] = "exch" => jobOps[j] = NoOps
              /\ (pc[j] = "done" /\ "entities" \notin faults[j]) =>
                    jobOps[j] = [commit |-> 1, rollback |-> 0, close |-> 1]
        /\ fetched = <<>>
        /\ lastFetch = NoFetch
        /\ cache = <<>>
        /\ store = <<>>

\* a backfill that ended on an empty exchange list, after an earlier invocation
NoExchangeOneCommitWitness ==
    /\ exchanges = <<>>
    /\ budget = LeafRuns - 2
    /\ pc["hist"] = "done"
    /\ faults["hist"] = {}
    /\ jobOps["hist"].commit = 1
    /\ jobOps["hist"].close = 1

\* the leaves of exchange e and pair p over the supported periods
PairLeaves(e, p) == {<<e, p, id>> : id \in TokenIds}

\* C34: a leaf write of the live update changes at most the one row keyed by
\* the leaf's pair, exchange and period and the fetched open_time, every
\* other row staying as it was; so when the fetches of all supported periods
\* of a pair returned the same open_time and were written, the table holds one
\* row per period under the pair's own keys.
LiveWriteTouchesOwnRow ==
    /\ [](\A e \in Range(exchanges), p \in Range(pairs) :
            (\A leaf \in PairLeaves(e, p) :
                /\ leaf \in Written
                /\ fetchRes[leaf].timestamp = now) =>
            Cardinality({k \in StoredKeys(store) :
                           \E leaf \in PairLeaves(e, p) : k = LeafKey(leaf, now)})
              = Cardinality(TokenIds))
    /\ [][pc["live"] = "fetch" =>
            \A k \in DOMAIN store \cup DOMAIN store' :
                Rows(store', k) # Rows(store, k) =>
                    k = LeafKey(CurLeaf("live"), fetchRes'[CurLeaf("live")].timestamp)]_vars

\* C35: no step of a backfill changes a row the table already holds: when a
\* page brings a candle whose natural key is stored, the stored prices and
\* volume, close_time, quote volume and trade count stay exactly as they were
\* and no second row is added under the key.
BackfillLeavesStoredRows ==
    [][\A k \in StoredKeys(store) : Rows(store', k) = Rows(store, k)]_vars

\* a page brought a candle for a stored key with other values than the row
\* holds, and the row is as it was stored
BackfillLeavesStoredRowsWitness ==
    \E k \in skipped :
        /\ store[k] = <<SeedRow(k[4])>>
        /\ \E i \in DOMAIN lastFetch.page :
              /\ lastFetch.page[i].timestamp = k[4]
              /\ lastFetch.page[i].ohlcv # store[k][1].ohlcv

\* the natural key of the one triple of a single-leaf run at open time t
OnlyKey(t) == <<pairs[1], exchanges[1], periods[1].id, t>>

\* C36: every candle of a fetched page whose write did not fail has a row
\* after the page was handled, whether its open_time lies in the range
\* [start, end) being paged, before it or at or after its end; a candle that
\* had no row when the backfill began is stored with the fetched values.
PagesNotClipped ==
    \A i \in DOMAIN lastFetch.page :
        i \notin lastFetch.bad =>
            LET cd == lastFetch.page[i] IN
            /\ OnlyKey(cd.timestamp) \in StoredKeys(store)
            /\ cd.timestamp \notin Range(gapIn) =>
                  store[OnlyKey(cd.timestamp)] = <<NewRow(cd)>>

\* a page that brought a candle from before the range and one from at or
\* after its end, neither stored before, both stored now
PagesNotClippedWitness ==
    /\ \E i \in DOMAIN lastFetch.page :
          /\ lastFetch.page[i].timestamp >= curRange.end
          /\ lastFetch.page[i].timestamp \notin Range(gapIn)
          /\ Rows(store, OnlyKey(lastFetch.page[i].timestamp)) = <<NewRow(lastFetch.page[i])>>
    /\ \E i \in DOMAIN lastFetch.page :
          /\ lastFetch.page[i].timestamp < curRange.start
          /\ lastFetch.page[i].timestamp \notin Range(gapIn)
          /\ Rows(store, OnlyKey(lastFetch.page[i].timestamp)) = <<NewRow(lastFetch.page[i])>>

\* a step in which fetch_historical_candles failed while a range was paged
FetchFailedStep ==
    /\ pc["hist"] = "page"
    /\ faultBudget' < faultBudget
    /\ lastFetch'.page = <<>>
    /\ "fetch" \in faults'["hist"]

\* C37: when a fetch fails while the backfill pages a gap, the paging of the
\* gap ends with that fetch as it does on an empty page: nothing is written,
\* the request is not made again and no later fetch is for that gap (paging
\* only ever stands in a range that starts at or after the end of the last
\* range left); the ranges still to come are kept and the next one is taken up.
FetchFailureEndsGap ==
    /\ []((pc["hist"] \in {"while", "page"} /\ lastGap # NoGap) =>
            curRange.start >= lastGap.end)
    /\ [][FetchFailedStep =>
            /\ pc'["hist"] = "range"
            /\ lastFetch'.since = cursor
            /\ lastGap'.start = curRange.start /\ lastGap'.end = curRange.end
            /\ ~lastGap'.clean
            /\ UNCHANGED <<store, pending, ranges, pos, cursor>>]_vars
    /\ [][(pc["hist"] = "range" /\ ranges # <<>>) =>
            /\ pc'["hist"] = "while"
            /\ cursor' = Head(ranges)[1]
            /\ curRange'.end = Head(ranges)[2]
            /\ ranges' = Tail(ranges)]_vars

\* a fetch failed in one gap of the leaf, and a later gap of the leaf was
\* paged without failure and got a candle stored
FetchFailureEndsGapWitness ==
    /\ faults["hist"] = {"fetch"}
    /\ Len(gapOut) >= 2
    /\ lastGap.start = gapOut[Len(gapOut)][1]
    /\ lastGap.clean
    /\ \E k \in durable["hist"] : k[4] >= lastGap.start /\ k[4] < lastGap.end

\* C38: in a backfill a rollback is issued for an exchange only when its
\* client could not be built; an exchange whose client was built and whose
\* pair loop began has its commit issued by the time the invocation ends,
\* whatever failed for its pairs, periods, fetches or candle writes.
RollbackOnlyForClientFailure ==
    /\ \A e \in DOMAIN exOps : exOps[e].rollback > 0 => e \in badCode
    /\ pc["hist"] = "done" =>
          \A e \in Range(exchanges) \ badCode :
              (\E p \in Range(pairs) : <<e, p>> \in visited["hist"]) =>
                  Get(exOps, e, NoExOps) = [commit |-> 1, rollback |-> 0]

=============================================================================
